---- MODULE Spec2Model ----
(***************************************************************************)
(* Smart-Research-Insights: CORE ingestion, online BERTopic pipeline,      *)
(* PostgreSQL writer and end-to-end runner, as state machines.             *)
(*                                                                         *)
(*   DocumentsSpec  DatabaseWriter.upsert_documents and                    *)
(*                  get_document_id_mapping over normalized batches        *)
(*   TrendsSpec     DatabaseWriter.upsert_topic_trends on trend frames     *)
(*   TablesSpec     every DatabaseWriter upsert as one transaction         *)
(*   FetchSpec      the page fetch loops of the API clients                *)
(*   FetchLiveSpec  FetchSpec with every started loop iterating on         *)
(*   IngestSpec     ingest_core_papers, page by page                       *)
(*   IngestLiveSpec IngestSpec with every started ingestion going on       *)
(*   Spec           run_end_to_end and the pipeline_online CLI             *)
(*   HelpersSpec    single calls of the functions that take no state       *)
(*   EngineSpec     calls on OnlineBERTopicPipeline objects                *)
(*   ConcurrentSpec the model stage of runs that overlap in time           *)
(*   RecoverySpec   the store stage, cut short and run again               *)
(*                                                                         *)
(* Strings are tuples of one-character strings; Python's None is the       *)
(* tuple None, which no string equals.  An optional value is a tuple of    *)
(* length 0 (absent) or 1.  A DataFrame is the tuple of its rows; a table  *)
(* is the set of its rows.                                                 *)
(***************************************************************************)
EXTENDS Integers, Sequences, FiniteSets, TLC

VARIABLES
    \* the store (PostgreSQL tables)
    documents,          \* set of rows [id, core_id, title, abstract, year, content_hash]
    doc_seq,            \* last value handed out for documents.id
    topics,             \* set of rows [topic_id, label, top_terms, size]
    topic_terms,        \* set of rows [topic_id, term, weight]
    topic_assignments,  \* set of rows [doc_id, topic_id, probability]
    topic_trends,       \* set of rows [topic_id, year, month, doc_count]
    \* durable files
    artifact,           \* models/artifacts/bertopic_light: <<>> or <<model>>
    clean_file,         \* data/clean/<from>_<to>_<lang>.parquet: <<>> or <<frame>>
    \* one run_end_to_end call, or one pipeline_online CLI call
    pc,                 \* the step the run is at; "idle" between runs
    flags,              \* [init_if_missing, skip_db] of the run
    pipeline_model,     \* OnlineBERTopicPipeline.model: <<>> (None) or <<model>>
    documents_df,       \* the batch the store stage loaded
    assignments_df,     \* what get_topic_assignments returned
    trends_ret,         \* what create_topic_trends returned or raised
    outcome,            \* how the last run ended
    runs,               \* processes started so far
    \* what the last DatabaseWriter / helper call was given and returned
    last_op,            \* name of the operation that acted last
    last_df,            \* the frame (or key list) it was given
    last_ok,            \* FALSE when the database raised SQLAlchemyError in it
    last_ret,           \* what it returned
    last_error,         \* the exception that escaped it, "none" when it returned
    \* history of the documents table
    latest,             \* core_id -> the row values of its last committed upsert
    first_row,          \* core_id -> the row its first insert created
    \* history of the trend table
    trend_rerun,        \* the last step upserted the frame of the step before it again
    \* one page fetch of an API client
    fetch_fn,           \* the function fetching; "none" before the first fetch
    attempt,            \* the loop index of the next request
    served,             \* the responses received so far
    sleeps,             \* the arguments of time.sleep so far
    fetch_result,       \* <<>> while the loop runs, then <<what it returned or raised>>
    fetch_log,          \* the kinds of message the call has logged or printed
    \* one ingest_core_papers call and the check run_end_to_end makes after it
    ing_pc,             \* "idle", "loop" (in the while loop), "ended" (after it)
    ing_args,           \* [limit, limit_given, page_size, max_pages]; limit is 0
                        \* when it is None (not given)
    page,               \* page counter of the loop
    total_fetched,      \* records collected so far
    all_records,        \* normalized records collected so far
    raw_lines,          \* records written to the raw JSONL file
    offsets,            \* the offset of every search request made
    received,           \* the records of every page received, in order
    total_hits,         \* totalHits of the last page that held records
    page_failed,        \* a search request of this call returned nothing
    ing_raised,         \* the call raised
    wrote_clean,        \* this call wrote the clean Parquet file
    after_ingest,       \* what run_end_to_end does after the call
    \* one DatabaseWriter upsert seen as a transaction
    failed_at,          \* the row at which the statement raised; 0 when none did
    overwrote,          \* the call replaced a row that was stored before it
    \* run_end_to_end processes running at the same time, at their model stage
    procs,              \* process -> [pc, op, init_if_missing]
    \* a run_end_to_end store stage that may be cut short and run again
    rec                 \* [pc, inputs, base, crashed]

store_vars == <<documents, doc_seq, topics, topic_terms, topic_assignments, topic_trends>>
file_vars  == <<artifact, clean_file>>
run_vars   == <<pc, flags, pipeline_model, documents_df, assignments_df, trends_ret, outcome>>
call_vars  == <<last_op, last_df, last_ok, last_ret, last_error>>
hist_vars  == <<latest, first_row, trend_rerun>>
fetch_vars == <<fetch_fn, attempt, served, sleeps, fetch_result, fetch_log>>
ingest_vars == <<ing_pc, ing_args, page, total_fetched, all_records, raw_lines,
                 offsets, received, total_hits, page_failed, ing_raised,
                 wrote_clean, after_ingest>>
txn_vars == <<failed_at, overwrote>>
conc_vars == <<procs>>
rec_vars == <<rec>>
vars == <<store_vars, file_vars, run_vars, runs, call_vars, hist_vars, fetch_vars,
          ingest_vars, txn_vars, conc_vars, rec_vars>>

---------------------------------------------------------------------------
(* Bounds of the model *)

MaxBatch == 2
\* processes (run_end_to_end or pipeline_online) started in one behaviour
MaxRuns == 2
\* arguments of an ingestion and the total the server reports
MaxLimit == 3
MaxPageSize == 2
MaxPages == 2
MaxTotalHits == 4
\* times a store stage is cut short before it is left to finish
MaxCrashes == 2

\* The run_end_to_end processes that may run at the same time
Procs == {1, 2}

---------------------------------------------------------------------------
(* Python values *)

None == <<"None">>
EmptyStr == <<>>

\* x or '' (core_api.py:125)
OrEmpty(x) == IF x = None \/ x = EmptyStr THEN EmptyStr ELSE x

Digits == <<"0", "1", "2", "3", "4", "5", "6", "7", "8", "9">>

RECURSIVE IntToStr(_)
\* str(n) for a non-negative integer
IntToStr(n) == IF n < 10 THEN <<Digits[n + 1]>>
               ELSE IntToStr(n \div 10) \o <<Digits[(n % 10) + 1]>>

\* The function with domain S that maps x to e(x), as a set of pairs is not
\* needed: TLA+ functions are used for Python dicts.
EmptyDict == [x \in {} |-> 0]

Range(s) == {s[i] : i \in DOMAIN s}

SeqsUpTo(S, n) == UNION {[1..k -> S] : k \in 0..n}

Min(a, b) == IF a < b THEN a ELSE b

\* str(x) of a cell: a string is itself, None is the word None
Str(x) == IF x = None THEN <<"N", "o", "n", "e">> ELSE x

RECURSIVE LStrip(_)
LStrip(s) == IF s # <<>> /\ Head(s) = " " THEN LStrip(Tail(s)) ELSE s

RECURSIVE RStrip(_)
RStrip(s) == IF s # <<>> /\ s[Len(s)] = " "
             THEN RStrip(SubSeq(s, 1, Len(s) - 1)) ELSE s

\* s.strip()
Strip(s) == RStrip(LStrip(s))

\* row.get(k, default)
Get(row, k, default) == IF k \in DOMAIN row THEN row[k] ELSE default

---------------------------------------------------------------------------
(* Ingestion: normalize_record and the content hash *)

\* hashlib.sha256 under the standard collision assumption: injective
sha256(content) == <<"sha256", content>>

get_content_hash(title, abstract) ==
    sha256(OrEmpty(title) \o <<"|">> \o OrEmpty(abstract))

\* A raw CORE record: [id |-> <<n>> or <<>>, title, abstract, year]
normalize_record(record) ==
    [core_id      |-> IF record.id = <<>> THEN EmptyStr ELSE IntToStr(record.id[1]),
     title        |-> record.title,
     abstract     |-> record.abstract,
     year         |-> record.year,
     content_hash |-> get_content_hash(record.title, record.abstract)]

RawIds == {<<1>>, <<2>>}

\* title, abstract and year of the records the API serves: a record without
\* title and abstract, one with both, and a later version of it
RawContents == {[title |-> None,    abstract |-> EmptyStr, year |-> 2020],
                [title |-> <<"a">>, abstract |-> <<"b">>,  year |-> 2020],
                [title |-> <<"a">>, abstract |-> <<"c">>,  year |-> 2021]}

RawRecords == {[id |-> i, title |-> c.title, abstract |-> c.abstract, year |-> c.year] :
                  i \in RawIds, c \in RawContents}

\* The clean batch ingestion writes: one normalized row per raw record, in order
NormalizeAll(raws) == [i \in DOMAIN raws |-> normalize_record(raws[i])]

CoreIds == {normalize_record(r).core_id : r \in RawRecords}

---------------------------------------------------------------------------
(* DatabaseWriter: documents *)

\* Variant: ON CONFLICT (core_id) DO NOTHING, the stored row is kept
UpsertDocRow_KeepOld(tbl, row) ==
    IF \E r \in tbl.rows : r.core_id = row.core_id
    THEN tbl
    ELSE [rows |-> tbl.rows \cup {[id           |-> tbl.seq + 1,
                                   core_id      |-> row.core_id,
                                   title        |-> row.title,
                                   abstract     |-> row.abstract,
                                   year         |-> row.year,
                                   content_hash |-> row.content_hash]},
          seq  |-> tbl.seq + 1]

\* Variant: delete the conflicting row and insert the new one under a new id
UpsertDocRow_Reinsert(tbl, row) ==
    [rows |-> {r \in tbl.rows : r.core_id # row.core_id}
                \cup {[id           |-> tbl.seq + 1,
                       core_id      |-> row.core_id,
                       title        |-> row.title,
                       abstract     |-> row.abstract,
                       year         |-> row.year,
                       content_hash |-> row.content_hash]},
     seq  |-> tbl.seq + 1]

\* INSERT ... ON CONFLICT (core_id) DO UPDATE SET <every other column>,
\* for one parameter row; id comes from the sequence on insert only
UpsertDocRow(tbl, row) ==
    IF \E r \in tbl.rows : r.core_id = row.core_id
    THEN [rows |-> {IF r.core_id = row.core_id
                    THEN [r EXCEPT !.title = row.title,
                                   !.abstract = row.abstract,
                                   !.year = row.year,
                                   !.content_hash = row.content_hash]
                    ELSE r : r \in tbl.rows},
          seq  |-> tbl.seq]
    ELSE [rows |-> tbl.rows \cup {[id           |-> tbl.seq + 1,
                                   core_id      |-> row.core_id,
                                   title        |-> row.title,
                                   abstract     |-> row.abstract,
                                   year         |-> row.year,
                                   content_hash |-> row.content_hash]},
          seq  |-> tbl.seq + 1]

RECURSIVE ExecDocRows(_, _, _)
\* conn.execute(stmt, documents_data): the statement once per row, in order
ExecDocRows(tbl, data, i) ==
    IF i > Len(data) THEN tbl
    ELSE ExecDocRows(UpsertDocRow(tbl, data[i]), data, i + 1)

\* upsert_documents(df); ok = FALSE: the database raises SQLAlchemyError
\* before the commit, the transaction is rolled back and 0 is returned
upsert_documents(tbl, df, ok) ==
    IF df = <<>> THEN [tbl |-> tbl, ret |-> 0]
    ELSE IF ok THEN [tbl |-> ExecDocRows(tbl, df, 1), ret |-> Len(df)]
    ELSE [tbl |-> tbl, ret |-> 0]

\* SELECT id, core_id FROM documents WHERE core_id IN (...), as the dict
\* {row.core_id: row.id}; {} when the list is empty or the database raises
get_document_id_mapping(rows, core_ids, ok) ==
    IF core_ids = <<>> \/ ~ok THEN EmptyDict
    ELSE LET found == {r \in rows : r.core_id \in Range(core_ids)}
         IN [k \in {r.core_id : r \in found} |->
                (CHOOSE r \in found : r.core_id = k).id]

\* Variant: every batch index gets an entry, 0 standing for an unknown key
reverse_mapping_placeholder(core_ids, doc_id_mapping) ==
    [i \in DOMAIN core_ids |->
        IF core_ids[i] \in DOMAIN doc_id_mapping THEN doc_id_mapping[core_ids[i]]
        ELSE 0]

\* run_end_to_end.py:181-185: batch index -> database id.  Batch indexes are
\* written 1-based here (Python's i is the index minus one).
reverse_mapping(core_ids, doc_id_mapping) ==
    [i \in {j \in DOMAIN core_ids : core_ids[j] \in DOMAIN doc_id_mapping} |->
        doc_id_mapping[core_ids[i]]]

---------------------------------------------------------------------------
(* Reconciliation: create_topic_trends, and DatabaseWriter: topic_trends *)

\* What a call returns or raises
Returned(v) == [raised |-> "none", value |-> v]
Raised(e)   == [raised |-> e, value |-> <<>>]

\* The column labels of a non-empty frame
Columns(df) == DOMAIN df[1]

\* create_topic_trends(assignments_df, documents_df).  documents_df[['doc_id',
\* 'year']] raises KeyError unless both labels are columns; when they are,
\* reset_index().rename(columns={'index': 'doc_id'}) yields a second column
\* labelled doc_id and merge(on='doc_id') raises ValueError (label not unique).
create_topic_trends(assignments, docs) ==
    IF assignments = <<>> \/ docs = <<>> THEN Returned(<<>>)
    ELSE IF ~({"doc_id", "year"} \subseteq Columns(docs)) THEN Raised("KeyError")
    ELSE Raised("ValueError")

\* Variant: ON CONFLICT ... DO UPDATE SET doc_count = doc_count + EXCLUDED.doc_count
UpsertTrendRow_Add(rows, row) ==
    IF \E r \in rows : /\ r.topic_id = row.topic_id
                       /\ r.year = row.year
                       /\ r.month = row.month
    THEN {IF r.topic_id = row.topic_id /\ r.year = row.year /\ r.month = row.month
          THEN [r EXCEPT !.doc_count = r.doc_count + row.doc_count]
          ELSE r : r \in rows}
    ELSE rows \cup {row}

\* INSERT ... ON CONFLICT (topic_id, year, month) DO UPDATE SET
\* doc_count = EXCLUDED.doc_count, for one parameter row
UpsertTrendRow(rows, row) ==
    IF \E r \in rows : /\ r.topic_id = row.topic_id
                       /\ r.year = row.year
                       /\ r.month = row.month
    THEN {IF r.topic_id = row.topic_id /\ r.year = row.year /\ r.month = row.month
          THEN [r EXCEPT !.doc_count = row.doc_count]
          ELSE r : r \in rows}
    ELSE rows \cup {row}

RECURSIVE ExecTrendRows(_, _, _)
\* conn.execute(stmt, trends_data): the statement once per row, in order
ExecTrendRows(rows, data, i) ==
    IF i > Len(data) THEN rows
    ELSE ExecTrendRows(UpsertTrendRow(rows, data[i]), data, i + 1)

\* upsert_topic_trends(df); ok = FALSE: the database raises SQLAlchemyError,
\* nothing is committed and 0 is returned
upsert_topic_trends(rows, df, ok) ==
    IF df = <<>> THEN [rows |-> rows, ret |-> 0]
    ELSE IF ok THEN [rows |-> ExecTrendRows(rows, df, 1), ret |-> Len(df)]
    ELSE [rows |-> rows, ret |-> 0]

---------------------------------------------------------------------------
(* DatabaseWriter: topics, topic_terms, topic_assignments *)

\* Variant: a row whose key is stored is left as it is (DO NOTHING)
ReplaceByKey_KeepOld(rows, row, key) ==
    IF \E r \in rows : \A f \in key : r[f] = row[f] THEN rows
    ELSE rows \cup {row}

\* INSERT ... ON CONFLICT (key) DO UPDATE SET <every other column>: the row
\* stored under the key of `row`, if any, gives way to `row`
ReplaceByKey(rows, row, key) ==
    {r \in rows : \E f \in key : r[f] # row[f]} \cup {row}

RECURSIVE ExecRows(_, _, _, _)
\* conn.execute(stmt, data): the statement once per row, in order
ExecRows(rows, data, key, i) ==
    IF i > Len(data) THEN rows
    ELSE ExecRows(ReplaceByKey(rows, data[i], key), data, key, i + 1)

\* upsert_topics(df), upsert_topic_terms(df): 0 and no change for an empty
\* frame or when the database raises
upsert_topics(rows, df, ok) ==
    IF df = <<>> \/ ~ok THEN [rows |-> rows, ret |-> 0]
    ELSE [rows |-> ExecRows(rows, df, {"topic_id"}, 1), ret |-> Len(df)]

upsert_topic_terms(rows, df, ok) ==
    IF df = <<>> \/ ~ok THEN [rows |-> rows, ret |-> 0]
    ELSE [rows |-> ExecRows(rows, df, {"topic_id", "term"}, 1), ret |-> Len(df)]

\* upsert_topic_assignments(df, doc_id_mapping): rows whose batch index has
\* no database id are left out
\* Variant: a row without a mapping is kept under its batch position
AssignmentsData_KeepUnmapped(df, doc_id_mapping) ==
    [i \in DOMAIN df |->
        [doc_id      |-> IF df[i].doc_id \in DOMAIN doc_id_mapping
                         THEN doc_id_mapping[df[i].doc_id] ELSE df[i].doc_id,
         topic_id    |-> df[i].topic_id,
         probability |-> df[i].probability]]

\* upsert_topic_assignments, the loop that builds assignments_data: a row
\* whose doc_id has no entry in doc_id_mapping is skipped
AssignmentsData(df, doc_id_mapping) ==
    LET mapped == SelectSeq(df, LAMBDA r : r.doc_id \in DOMAIN doc_id_mapping)
    IN [i \in DOMAIN mapped |->
           [doc_id      |-> doc_id_mapping[mapped[i].doc_id],
            topic_id    |-> mapped[i].topic_id,
            probability |-> mapped[i].probability]]

upsert_topic_assignments(rows, df, doc_id_mapping, ok) ==
    LET data == AssignmentsData(df, doc_id_mapping)
    IN IF df = <<>> \/ data = <<>> \/ ~ok THEN [rows |-> rows, ret |-> 0]
       ELSE [rows |-> ExecRows(rows, data, {"doc_id", "topic_id"}, 1),
             ret |-> Len(data)]

---------------------------------------------------------------------------
(* Topic engine: OnlineBERTopicPipeline.  Embedding, clustering and the     *)
(* artifact format are BERTopic's: a fit, a transform or a save yields one  *)
(* of the outcomes below, chosen by the caller's \E.                        *)

Outlier == -1

\* Fitted models: get_topic_info() rows and get_topics() rows
ModelA == [info  |-> {[Topic |-> -1, Count |-> 1, Name |-> "-1_y"],
                      [Topic |-> 0,  Count |-> 1, Name |-> "0_x"]},
           terms |-> {[topic_id |-> -1, term |-> "y", weight |-> 1],
                      [topic_id |-> 0,  term |-> "x", weight |-> 5]}]
ModelB == [info  |-> {[Topic |-> -1, Count |-> 1, Name |-> "-1_y"],
                      [Topic |-> 0,  Count |-> 2, Name |-> "0_z"]},
           terms |-> {[topic_id |-> -1, term |-> "y", weight |-> 1],
                      [topic_id |-> 0,  term |-> "z", weight |-> 7]}]
ModelC == [info  |-> {[Topic |-> 0, Count |-> 1, Name |-> "0_x"],
                      [Topic |-> 1, Count |-> 1, Name |-> "1_w"]},
           terms |-> {[topic_id |-> 0, term |-> "x", weight |-> 5],
                      [topic_id |-> 1, term |-> "w", weight |-> 3]}]
EngineModels == {ModelA, ModelB, ModelC}

\* The directory a failed save leaves behind: it exists and does not load
PartialArtifact == [info |-> {}, terms |-> {}]

TopicIdsOf(m) == {r.Topic : r \in m.info}

\* Where an engine call fails: nowhere; before the fit (_create_model,
\* _load_encoder, encoder.encode); in fit_transform / transform /
\* update_topics; or in model.save
EngineFailures == {"none", "encode", "fit", "save"}

\* Variant: a call that fails cleans the artifact location up
FitAndSave_RemoveOnFailure(art, loaded, fail, fitted, partial) ==
    IF fail = "none"
    THEN [artifact |-> <<fitted>>, model |-> <<fitted>>, raised |-> "none"]
    ELSE [artifact |-> <<>>, model |-> loaded, raised |-> "Exception"]

\* Variant: the artifact directory is written before the documents are
\* encoded and the model is fitted
FitAndSave_SaveFirst(art, loaded, fail, fitted, partial) ==
    CASE fail = "none" -> [artifact |-> <<fitted>>, model |-> <<fitted>>,
                           raised |-> "none"]
      [] fail = "save" -> [artifact |-> IF partial THEN <<PartialArtifact>> ELSE art,
                           model |-> loaded, raised |-> "Exception"]
      [] OTHER         -> [artifact |-> <<PartialArtifact>>, model |-> loaded,
                           raised |-> "Exception"]

\* What a call leaves behind once the batch is read: model.save comes last,
\* and a save that fails may leave a directory that does not load
FitAndSave(art, loaded, fail, fitted, partial) ==
    CASE fail = "none" -> [artifact |-> <<fitted>>, model |-> <<fitted>>,
                           raised |-> "none"]
      [] fail = "save" -> [artifact |-> IF partial THEN <<PartialArtifact>> ELSE art,
                           model |-> <<fitted>>, raised |-> "Exception"]
      [] OTHER         -> [artifact |-> art, model |-> loaded, raised |-> "Exception"]

\* init_model(batch_path); batch is the Parquet file at batch_path, <<>> when
\* there is none
init_model(art, batch, fail, fitted, partial) ==
    IF batch = <<>>
    THEN [artifact |-> art, model |-> <<>>, raised |-> "FileNotFoundError"]
    ELSE FitAndSave(art, <<>>, fail, fitted, partial)

\* Variant: update without the check that the artifact exists
update_model_unchecked(art, batch, fail, updated, partial) ==
    IF art = <<PartialArtifact>>
    THEN [artifact |-> art, model |-> <<>>, raised |-> "Exception"]
    ELSE IF batch = <<>>
    THEN [artifact |-> art, model |-> art, raised |-> "FileNotFoundError"]
    ELSE FitAndSave(art, art, fail, updated, partial)

\* update_model(batch_path): FileNotFoundError when the artifact is missing;
\* BERTopic.load raises on a directory that does not load
update_model(art, batch, fail, updated, partial) ==
    IF art = <<>>
    THEN [artifact |-> art, model |-> <<>>, raised |-> "FileNotFoundError"]
    ELSE IF art = <<PartialArtifact>>
    THEN [artifact |-> art, model |-> <<>>, raised |-> "Exception"]
    ELSE IF batch = <<>>
    THEN [artifact |-> art, model |-> art, raised |-> "FileNotFoundError"]
    ELSE FitAndSave(art, art, fail, updated, partial)

\* get_topic_summary(), as the frame run_end_to_end builds from it
TopicsFrame(m) ==
    LET ids == TopicIdsOf(m)
        row(t) == LET r == CHOOSE r \in m.info : r.Topic = t
                  IN [topic_id |-> t, label |-> r.Name, top_terms |-> r.Name,
                      size |-> r.Count]
    IN IF Outlier \in ids /\ 1 \in ids THEN <<row(Outlier), row(0), row(1)>>
       ELSE IF Outlier \in ids THEN <<row(Outlier), row(0)>>
       ELSE <<row(0), row(1)>>

\* get_topic_terms()
TermsFrame(m) ==
    LET t(i, w) == CHOOSE r \in m.terms : r.topic_id = i /\ r.term = w
    IN IF m = ModelA THEN <<t(-1, "y"), t(0, "x")>>
       ELSE IF m = ModelB THEN <<t(-1, "y"), t(0, "z")>>
       ELSE <<t(0, "x"), t(1, "w")>>

\* What model.transform hands back for a batch of n documents: a topic id per
\* document, and probabilities that are None, one number per document, or one
\* row per document indexed by topic id (here at index topic id + 1)
Labellings(m, n) == [1..n -> TopicIdsOf(m) \cup {Outlier}]

Probabilities(n) ==
    {[kind |-> "none", vals |-> <<>>],
     [kind |-> "1d",   vals |-> [i \in 1..n |-> 90]],
     [kind |-> "2d",   vals |-> [i \in 1..n |-> <<90, 40>>]]}

\* Variant: outliers are kept
get_topic_assignments_all(model, labels, probs) ==
    IF model = <<>> THEN Raised("ValueError")
    ELSE IF probs.kind = "none" THEN Raised("TypeError")
    ELSE IF probs.kind = "1d" THEN Raised("IndexError")
    ELSE Returned([i \in DOMAIN labels |->
                      [doc_id |-> i, topic_id |-> labels[i],
                       probability |-> IF labels[i] = Outlier THEN 0
                                       ELSE probs.vals[i][labels[i] + 1]]])

\* get_topic_assignments(df) on the transform output (labels, probs).  Batch
\* indexes are 1-based here.  zip(topics, None) raises TypeError; prob[topic]
\* on a number raises IndexError, at the first document that is no outlier.
get_topic_assignments(model, labels, probs) ==
    IF model = <<>> THEN Raised("ValueError")
    ELSE IF probs.kind = "none" THEN Raised("TypeError")
    ELSE IF probs.kind = "1d" /\ \E i \in DOMAIN labels : labels[i] # Outlier
    THEN Raised("IndexError")
    ELSE LET rows == [i \in DOMAIN labels |->
                        [doc_id |-> i, topic_id |-> labels[i],
                         probability |-> IF labels[i] = Outlier THEN 0
                                         ELSE probs.vals[i][labels[i] + 1]]]
         IN Returned(SelectSeq(rows, LAMBDA r : r.topic_id # Outlier))

---------------------------------------------------------------------------
(* History of committed document upserts *)

LastIndexOf(df, k) == CHOOSE i \in DOMAIN df :
                          /\ df[i].core_id = k
                          /\ \A j \in DOMAIN df : df[j].core_id = k => j <= i

KeysOf(df) == {df[i].core_id : i \in DOMAIN df}

---------------------------------------------------------------------------
(* Initial state: an empty store *)

Init ==
    /\ documents = {}
    /\ doc_seq = 0
    /\ topics = {}
    /\ topic_terms = {}
    /\ topic_assignments = {}
    /\ topic_trends = {}
    /\ artifact = <<>>
    /\ clean_file = <<>>
    /\ pc = "idle"
    /\ flags = [init_if_missing |-> FALSE, skip_db |-> FALSE]
    /\ pipeline_model = <<>>
    /\ documents_df = <<>>
    /\ assignments_df = <<>>
    /\ trends_ret = <<>>
    /\ outcome = "none"
    /\ runs = 0
    /\ last_op = "none"
    /\ last_df = <<>>
    /\ last_ok = TRUE
    /\ last_ret = <<>>
    /\ last_error = "none"
    /\ latest = EmptyDict
    /\ first_row = EmptyDict
    /\ trend_rerun = FALSE
    /\ fetch_fn = "none"
    /\ attempt = 0
    /\ served = <<>>
    /\ sleeps = <<>>
    /\ fetch_result = <<>>
    /\ fetch_log = {}
    /\ ing_pc = "idle"
    /\ ing_args = [limit |-> 0, limit_given |-> FALSE, page_size |-> 1,
                   max_pages |-> 1]
    /\ page = 0
    /\ total_fetched = 0
    /\ all_records = <<>>
    /\ raw_lines = <<>>
    /\ offsets = <<>>
    /\ received = <<>>
    /\ total_hits = 0
    /\ page_failed = FALSE
    /\ ing_raised = FALSE
    /\ wrote_clean = FALSE
    /\ after_ingest = "none"
    /\ failed_at = 0
    /\ overwrote = FALSE
    /\ procs = [p \in Procs |-> [pc |-> "idle", op |-> "none",
                                 init_if_missing |-> FALSE]]
    /\ rec = [pc |-> "idle", inputs |-> <<>>, base |-> <<>>, crashed |-> 0]

---------------------------------------------------------------------------
(* DocumentsSpec: a batch is ingested, normalized and upserted; keys are   *)
(* resolved to ids                                                         *)

UpsertDocuments ==
    \E raws \in SeqsUpTo(RawRecords, MaxBatch), ok \in BOOLEAN :
        LET df  == NormalizeAll(raws)
            res == upsert_documents([rows |-> documents, seq |-> doc_seq], df, ok)
            committed == ok /\ df # <<>>
        IN /\ documents' = res.tbl.rows
           /\ doc_seq' = res.tbl.seq
           /\ last_op' = "upsert_documents"
           /\ last_df' = <<>>
           /\ last_ok' = ok
           /\ last_ret' = <<res.ret>>
           /\ last_error' = "none"
           /\ latest' = IF committed
                        THEN [k \in DOMAIN latest \cup KeysOf(df) |->
                                 IF k \in KeysOf(df) THEN df[LastIndexOf(df, k)]
                                 ELSE latest[k]]
                        ELSE latest
           /\ first_row' = IF committed
                           THEN [k \in DOMAIN first_row \cup KeysOf(df) |->
                                    IF k \in DOMAIN first_row THEN first_row[k]
                                    ELSE LET r == CHOOSE r \in res.tbl.rows : r.core_id = k
                                             f == df[CHOOSE i \in DOMAIN df :
                                                       /\ df[i].core_id = k
                                                       /\ \A j \in DOMAIN df :
                                                             df[j].core_id = k => i <= j]
                                         IN [id |-> r.id, core_id |-> k,
                                             title |-> f.title, abstract |-> f.abstract,
                                             year |-> f.year,
                                             content_hash |-> f.content_hash]]
                           ELSE first_row
           /\ UNCHANGED <<topics, topic_terms, topic_assignments, topic_trends,
                          trend_rerun, file_vars, run_vars, runs, fetch_vars, ingest_vars,
                          txn_vars, conc_vars, rec_vars>>

ResolveKeys == CoreIds \cup {<<"9">>}

GetDocumentIdMapping ==
    \E core_ids \in SeqsUpTo(ResolveKeys, MaxBatch), ok \in BOOLEAN :
        /\ last_op' = "get_document_id_mapping"
        /\ last_df' = core_ids
        /\ last_ok' = ok
        /\ last_error' = "none"
        /\ last_ret' = <<reverse_mapping(core_ids,
                            get_document_id_mapping(documents, core_ids, ok))>>
        /\ UNCHANGED <<store_vars, hist_vars, file_vars, run_vars, runs, fetch_vars, ingest_vars,
                          txn_vars, conc_vars, rec_vars>>

DocumentsNext == UpsertDocuments \/ GetDocumentIdMapping

DocumentsSpec == Init /\ [][DocumentsNext]_vars

---------------------------------------------------------------------------
(* TrendsSpec: upsert_topic_trends on trend frames *)

TrendTopics == {0, 1}
TrendCounts == {1, 2}

TrendRows == [topic_id : TrendTopics, year : {2021}, month : {1},
              doc_count : TrendCounts]

UpsertTopicTrends ==
    \E df \in SeqsUpTo(TrendRows, MaxBatch), ok \in BOOLEAN :
        LET res == upsert_topic_trends(topic_trends, df, ok)
        IN /\ topic_trends' = res.rows
           /\ last_op' = "upsert_topic_trends"
           /\ last_df' = df
           /\ last_ok' = ok
           /\ last_ret' = <<res.ret>>
           /\ last_error' = "none"
           /\ trend_rerun' = /\ ok /\ df # <<>>
                              /\ last_op = "upsert_topic_trends"
                              /\ last_ok /\ last_df = df
           /\ UNCHANGED <<documents, doc_seq, topics, topic_terms, topic_assignments,
                          latest, first_row, file_vars, run_vars, runs, fetch_vars, ingest_vars,
                          txn_vars, conc_vars, rec_vars>>

TrendsNext == UpsertTopicTrends

TrendsSpec == Init /\ [][TrendsNext]_vars

---------------------------------------------------------------------------
(* TablesSpec: each DatabaseWriter upsert as the transaction it runs in:    *)
(*     with self.engine.connect() as conn:                                  *)
(*         conn.execute(stmt, data); conn.commit()                          *)
(* The statement runs once per row of data, in order; a row may raise, and  *)
(* so may the commit.  Calls on different tables touch different tables, so *)
(* a behaviour stays with the table of its first call.                      *)

\* The rows the statement had run for when it raised at row fail_at; with
\* fail_at = 0 nothing raised, with fail_at = Len(data) + 1 the commit did
ExecutedRows(data, fail_at) ==
    IF fail_at = 0 THEN data ELSE SubSeq(data, 1, fail_at - 1)

FailPoints(data) == 0..(Len(data) + 1)

\* Variant: every row is committed as soon as it has run
Rollback_KeepExecuted(before, in_txn) == in_txn

\* The with block is left by the exception before conn.commit(): closing
\* the connection rolls the transaction back.  (PostgreSQL does not hand a
\* rolled-back sequence value out again; ids are only ever compared, so
\* the counter is restored with the rows.)
Rollback(before, in_txn) == before

EndTransaction(before, in_txn, fail_at) ==
    IF fail_at = 0 THEN in_txn ELSE Rollback(before, in_txn)

\* Records of both papers, each in two versions
TableRecords == {r \in RawRecords : r.title # None}

\* Frames get_topic_assignments can hand over: batch positions in order,
\* a topic and a probability (in percent) each
AssignmentRows == [doc_id : {1, 2}, topic_id : {0, 1}, probability : {40, 90}]
AssignmentFrames ==
    {<<>>} \cup {<<r>> : r \in AssignmentRows}
           \cup {<<r1, r2>> : <<r1, r2>> \in
                    {p \in AssignmentRows \X AssignmentRows :
                        p[1].doc_id = 1 /\ p[2].doc_id = 2}}

\* Mappings from batch position to document id: nothing resolved, the first
\* position only, both, both to the same document
IdMappings == {EmptyDict, <<1>>, <<1, 2>>, <<1, 1>>}

TxnRest == <<file_vars, run_vars, runs, hist_vars, fetch_vars, ingest_vars,
            conc_vars, rec_vars>>

TxnCall(op, data, fail_at) ==
    /\ last_op \in {"none", op}
    /\ last_op' = op
    /\ last_df' = data
    /\ last_ok' = (fail_at = 0)
    /\ last_ret' = <<IF fail_at = 0 THEN Len(data) ELSE 0>>
    /\ last_error' = "none"
    /\ failed_at' = fail_at
    /\ UNCHANGED TxnRest

\* upsert_documents(df); last_df is documents_data
TxnUpsertDocuments ==
    \E raws \in SeqsUpTo(TableRecords, MaxBatch) :
      \E fail_at \in (IF raws = <<>> THEN {0} ELSE FailPoints(raws)) :
        LET data   == NormalizeAll(raws)
            before == [rows |-> documents, seq |-> doc_seq]
            in_txn == ExecDocRows(before, ExecutedRows(data, fail_at), 1)
            after  == EndTransaction(before, in_txn, fail_at)
        IN /\ TxnCall("upsert_documents", data, fail_at)
           /\ documents' = after.rows
           /\ doc_seq' = after.seq
           /\ overwrote' = (documents \ documents' # {})
           /\ UNCHANGED <<topics, topic_terms, topic_assignments, topic_trends>>

\* upsert_topics(df); last_df is topics_data
TxnUpsertTopics ==
    \E m \in EngineModels :
      \E fail_at \in FailPoints(TopicsFrame(m)) :
        LET data   == TopicsFrame(m)
            in_txn == ExecRows(topics, ExecutedRows(data, fail_at), {"topic_id"}, 1)
        IN /\ TxnCall("upsert_topics", data, fail_at)
           /\ topics' = EndTransaction(topics, in_txn, fail_at)
           /\ overwrote' = (topics \ topics' # {})
           /\ UNCHANGED <<documents, doc_seq, topic_terms, topic_assignments,
                          topic_trends>>

\* upsert_topic_terms(df); last_df is terms_data
TxnUpsertTopicTerms ==
    \E m \in EngineModels :
      \E fail_at \in FailPoints(TermsFrame(m)) :
        LET data   == TermsFrame(m)
            in_txn == ExecRows(topic_terms, ExecutedRows(data, fail_at),
                               {"topic_id", "term"}, 1)
        IN /\ TxnCall("upsert_topic_terms", data, fail_at)
           /\ topic_terms' = EndTransaction(topic_terms, in_txn, fail_at)
           /\ overwrote' = (topic_terms \ topic_terms' # {})
           /\ UNCHANGED <<documents, doc_seq, topics, topic_assignments,
                          topic_trends>>

\* upsert_topic_assignments(df, doc_id_mapping); last_df is assignments_data,
\* and with no row in it the call returns before it connects
TxnUpsertTopicAssignments ==
    \E df \in AssignmentFrames, doc_id_mapping \in IdMappings :
      LET data == AssignmentsData(df, doc_id_mapping)
      IN \E fail_at \in (IF data = <<>> THEN {0} ELSE FailPoints(data)) :
           LET in_txn == ExecRows(topic_assignments, ExecutedRows(data, fail_at),
                                  {"doc_id", "topic_id"}, 1)
           IN /\ TxnCall("upsert_topic_assignments", data, fail_at)
              /\ topic_assignments' =
                     EndTransaction(topic_assignments, in_txn, fail_at)
              /\ overwrote' = (topic_assignments \ topic_assignments' # {})
              /\ UNCHANGED <<documents, doc_seq, topics, topic_terms, topic_trends>>

\* upsert_topic_trends(df); last_df is trends_data
TxnUpsertTopicTrends ==
    \E data \in SeqsUpTo(TrendRows, MaxBatch) :
      \E fail_at \in (IF data = <<>> THEN {0} ELSE FailPoints(data)) :
        LET in_txn == ExecTrendRows(topic_trends, ExecutedRows(data, fail_at), 1)
        IN /\ TxnCall("upsert_topic_trends", data, fail_at)
           /\ topic_trends' = EndTransaction(topic_trends, in_txn, fail_at)
           /\ overwrote' = (topic_trends \ topic_trends' # {})
           /\ UNCHANGED <<documents, doc_seq, topics, topic_terms,
                          topic_assignments>>

TablesNext ==
    \/ TxnUpsertDocuments
    \/ TxnUpsertTopics
    \/ TxnUpsertTopicTerms
    \/ TxnUpsertTopicAssignments
    \/ TxnUpsertTopicTrends

TablesSpec == Init /\ [][TablesNext]_vars

---------------------------------------------------------------------------
(* FetchSpec: the page fetch loops of CoreAPIClient._make_request,          *)
(* client._query_api, works_scroll._post and fetch_page; one action per     *)
(* loop iteration: a request, its response, and what the loop does with it  *)

max_retries == 3
QueryApiAttempts == 5
PostRetries == 5
FetchPageAttempts == 5

RetryStatuses == {429, 500, 502, 503, 504}
FetchPageRetryStatuses == {429, 500}

\* What the server may answer: a status with a body, or nothing at all
\* (status 0: requests raises ConnectionError or Timeout).  The body of a 200
\* is JSON with "results", JSON wrapping a JSON string under "message",
\* JSON with "message" that is no JSON, some other JSON object, or no JSON.
OkBodies == {"results", "message", "message_bad", "other", "unparseable"}
Responses ==
    {[status |-> 200, body |-> b] : b \in OkBodies}
        \cup {[status |-> c, body |-> "error"] : c \in {404, 429, 500, 503}}
        \cup {[status |-> 0, body |-> "no_response"]}

RECURSIVE Pow2(_)
Pow2(n) == IF n = 0 THEN 1 ELSE 2 * Pow2(n - 1)

\* the 200 branch of _query_api (empty == "empty_results") and of _post
\* (empty == "empty_dict")
Unwrap(body, empty) ==
    CASE body = "results" -> "data_results"
      [] body = "message" -> "nested"
      [] OTHER            -> empty

FetchRest == <<store_vars, file_vars, run_vars, runs, call_vars, hist_vars, ingest_vars,
               txn_vars, conc_vars, rec_vars>>

FetchStart ==
    /\ fetch_fn = "none" \/ fetch_result # <<>>
    /\ fetch_fn' \in {"_make_request", "_query_api", "_post", "fetch_page"}
    /\ attempt' = 0
    /\ served' = <<>>
    /\ sleeps' = <<>>
    /\ fetch_result' = <<>>
    /\ fetch_log' = {}
    /\ UNCHANGED FetchRest

\* CoreAPIClient._make_request: raise_for_status raises HTTPError for every
\* 4xx and 5xx; every RequestException is retried until the last attempt.
\* response.json() on a body that is no JSON raises a RequestException or a
\* plain ValueError, depending on the requests version.
MakeRequestAttempt ==
    /\ fetch_fn = "_make_request"
    /\ fetch_result = <<>>
    /\ attempt < max_retries
    /\ \E r \in Responses, json_error_is_request_exception \in BOOLEAN :
         LET failed == \/ r.status # 200
                       \/ r.body = "unparseable" /\ json_error_is_request_exception
         IN /\ served' = Append(served, r)
            /\ (r.body # "unparseable" => json_error_is_request_exception)
            /\ IF failed
               THEN IF attempt < max_retries - 1
                    THEN /\ sleeps' = Append(sleeps, Pow2(attempt))
                         /\ attempt' = attempt + 1
                         /\ fetch_result' = <<>>
                         /\ fetch_log' = fetch_log \cup {"Request failed"}
                    ELSE /\ fetch_result' = <<Returned("None")>>
                         /\ fetch_log' = fetch_log \cup {"Request failed",
                                                         "Max retries exceeded"}
                         /\ UNCHANGED <<sleeps, attempt>>
               ELSE /\ fetch_result' =
                         IF r.body = "unparseable" THEN <<Raised("ValueError")>>
                         ELSE IF r.body = "results" THEN <<Returned("data_results")>>
                         ELSE <<Returned("data_" \o r.body)>>
                    /\ fetch_log' =
                         IF r.body \in {"unparseable", "results"} THEN fetch_log
                         ELSE fetch_log \cup {"Unexpected response shape"}
                    /\ UNCHANGED <<sleeps, attempt>>
    /\ UNCHANGED fetch_fn
    /\ UNCHANGED FetchRest

\* Variant: a retry status sleeps and asks again without using up an attempt
RetryLoopStep_NoCount(r, attempts, empty) ==
    /\ served' = Append(served, r)
    /\ IF r.status = 0
       THEN /\ fetch_result' = <<Raised("RequestException")>>
            /\ UNCHANGED <<sleeps, attempt>>
       ELSE IF r.status = 200
       THEN /\ fetch_result' = <<Returned(Unwrap(r.body, empty))>>
            /\ UNCHANGED <<sleeps, attempt>>
       ELSE IF r.status \in RetryStatuses
       THEN /\ sleeps' = Append(sleeps, Pow2(attempt))
            /\ UNCHANGED <<attempt, fetch_result>>
       ELSE /\ fetch_result' = <<Raised("RuntimeError: status")>>
            /\ UNCHANGED <<sleeps, attempt>>

\* The loop shared by _query_api and _post: 200 returns, a retry status
\* sleeps 2**i and continues, any other status raises RuntimeError; the loop
\* running out raises RuntimeError("CORE: max retries").  _query_api writes
\* no message anywhere; _post prints one line when it meets a retry status
RetryLoopStep(r, attempts, empty) ==
    /\ served' = Append(served, r)
    /\ IF r.status = 0
       THEN /\ fetch_result' = <<Raised("RequestException")>>
            /\ UNCHANGED <<sleeps, attempt>>
       ELSE IF r.status = 200
       THEN /\ fetch_result' = <<Returned(Unwrap(r.body, empty))>>
            /\ UNCHANGED <<sleeps, attempt>>
       ELSE IF r.status \in RetryStatuses
       THEN /\ sleeps' = Append(sleeps, Pow2(attempt))
            /\ attempt' = attempt + 1
            /\ fetch_result' = IF attempt + 1 < attempts THEN <<>>
                               ELSE <<Raised("RuntimeError: max retries")>>
       ELSE /\ fetch_result' = <<Raised("RuntimeError: status")>>
            /\ UNCHANGED <<sleeps, attempt>>

QueryApiAttempt ==
    /\ fetch_fn = "_query_api"
    /\ fetch_result = <<>>
    /\ attempt < QueryApiAttempts
    /\ \E r \in Responses : RetryLoopStep(r, QueryApiAttempts, "empty_results")
    /\ UNCHANGED <<fetch_fn, fetch_log>>
    /\ UNCHANGED FetchRest

PostAttempt ==
    /\ fetch_fn = "_post"
    /\ fetch_result = <<>>
    /\ attempt < PostRetries
    /\ \E r \in Responses :
         /\ RetryLoopStep(r, PostRetries, "empty_dict")
         /\ fetch_log' = IF r.status \in RetryStatuses
                         THEN fetch_log \cup {"[retry i] CORE status"}
                         ELSE fetch_log
    /\ UNCHANGED fetch_fn
    /\ UNCHANGED FetchRest

\* fetch_page: 200 returns r.json() (which raises on a body that is no
\* JSON), 429 and 500 back off and retry, any other status returns None
FetchPageAttempt ==
    /\ fetch_fn = "fetch_page"
    /\ fetch_result = <<>>
    /\ attempt < FetchPageAttempts
    /\ \E r \in Responses :
         /\ served' = Append(served, r)
         /\ IF r.status = 0
            THEN /\ fetch_result' = <<Raised("RequestException")>>
                 /\ UNCHANGED <<sleeps, attempt, fetch_log>>
            ELSE IF r.status = 200
            THEN /\ fetch_result' =
                      IF r.body = "unparseable" THEN <<Raised("ValueError")>>
                      ELSE IF r.body = "results" THEN <<Returned("data_results")>>
                      ELSE <<Returned("data_" \o r.body)>>
                 /\ UNCHANGED <<sleeps, attempt, fetch_log>>
            ELSE IF r.status \in FetchPageRetryStatuses
            THEN /\ sleeps' = Append(sleeps, Pow2(attempt))
                 /\ attempt' = attempt + 1
                 /\ fetch_result' = IF attempt + 1 < FetchPageAttempts THEN <<>>
                                    ELSE <<Returned("None")>>
                 /\ fetch_log' = fetch_log \cup
                        (IF attempt + 1 < FetchPageAttempts THEN {"retrying"}
                         ELSE {"retrying", "Max retries reached"})
            ELSE /\ fetch_result' = <<Returned("None")>>
                 /\ fetch_log' = fetch_log \cup {"Unexpected status"}
                 /\ UNCHANGED <<sleeps, attempt>>
    /\ UNCHANGED fetch_fn
    /\ UNCHANGED FetchRest

FetchNext ==
    \/ FetchStart
    \/ MakeRequestAttempt
    \/ QueryApiAttempt
    \/ PostAttempt
    \/ FetchPageAttempt

FetchSpec == Init /\ [][FetchNext]_vars

\* Every request is answered or raises (timeout=30, timeout=60), and
\* time.sleep returns: a loop that can take its next iteration takes it
FetchLiveSpec ==
    /\ FetchSpec
    /\ WF_vars(MakeRequestAttempt)
    /\ WF_vars(QueryApiAttempt)
    /\ WF_vars(PostAttempt)
    /\ WF_vars(FetchPageAttempt)

---------------------------------------------------------------------------
(* IngestSpec: ingest_core_papers, one action per iteration of its page     *)
(* loop, and what run_end_to_end does when the call is over                 *)

\* The records the API serves to a run: two papers of 2021
RunRecords == {r \in RawRecords : r.year = 2021}

\* What search_works hands back: None (or an empty dict) when the fetch
\* failed, else the page with its results and the total the server reports
NoPage == [failed |-> TRUE, results |-> <<>>, totalHits |-> 0]
Pages(page_size) ==
    {NoPage} \cup
    {[failed |-> FALSE, results |-> rs, totalHits |-> h] :
        rs \in SeqsUpTo(RunRecords, page_size), h \in 0..MaxTotalHits}

IngestRest == <<store_vars, artifact, run_vars, runs, call_vars, hist_vars, fetch_vars,
                txn_vars, conc_vars, rec_vars>>

\* ingest_core_papers up to the loop: CoreAPIClient() raises ValueError
\* without CORE_API_KEY; the raw file is opened for writing
IngestStart ==
    /\ ing_pc = "idle"
    /\ \E limit \in 0..MaxLimit, limit_given \in BOOLEAN,
          page_size \in 1..MaxPageSize, max_pages \in 1..MaxPages,
          api_key \in BOOLEAN :
         /\ (~limit_given => limit = 0)
         /\ ing_args' = [limit |-> limit, limit_given |-> limit_given,
                         page_size |-> page_size, max_pages |-> max_pages]
         /\ ing_raised' = ~api_key
         /\ ing_pc' = IF api_key THEN "loop" ELSE "ended"
    /\ page' = 0
    /\ total_fetched' = 0
    /\ all_records' = <<>>
    /\ raw_lines' = <<>>
    /\ offsets' = <<>>
    /\ received' = <<>>
    /\ total_hits' = 0
    /\ page_failed' = FALSE
    /\ wrote_clean' = FALSE
    /\ after_ingest' = "none"
    /\ UNCHANGED clean_file
    /\ UNCHANGED IngestRest

\* Variant: the loop goes on whatever the page counter says
LoopContinues_Unbounded(pg, max_pages) == TRUE

\* while page < max_pages: (core_ingest.py:163)
LoopContinues(pg, max_pages) == pg < max_pages

\* "offset": page * page_size (core_api.py:85)
Offset(pg, page_size) == pg * page_size

\* Variant: the record at which the limit is reached is not written
Taken_DropLast(results, limit, fetched) ==
    IF limit = 0 THEN results
    ELSE SubSeq(results, 1, Min(Len(results), limit - fetched) - 1)

\* The records of a page the inner for loop takes: all of them, or as many
\* as the limit leaves room for; `if limit and ...` is false for None and
\* for 0
Taken(results, limit, fetched) ==
    IF limit = 0 THEN results
    ELSE SubSeq(results, 1, Min(Len(results), limit - fetched))

\* One pass of `while page < max_pages`
IngestPage ==
    /\ ing_pc = "loop"
    /\ IF \/ ~LoopContinues(page, ing_args.max_pages)
          \/ ing_args.limit # 0 /\ total_fetched >= ing_args.limit
       THEN /\ ing_pc' = "ended"
            /\ UNCHANGED <<page, total_fetched, all_records, raw_lines, offsets,
                           received, total_hits, page_failed>>
       ELSE \E response \in Pages(ing_args.page_size) :
              LET taken == Taken(response.results, ing_args.limit, total_fetched)
              IN /\ offsets' = Append(offsets, Offset(page, ing_args.page_size))
                 /\ received' = received \o response.results
                 /\ IF response.failed
                    THEN /\ page_failed' = TRUE
                         /\ ing_pc' = "ended"
                         /\ UNCHANGED <<page, total_fetched, all_records, raw_lines,
                                        total_hits>>
                    ELSE IF response.results = <<>>
                    THEN /\ ing_pc' = "ended"
                         /\ UNCHANGED <<page, total_fetched, all_records, raw_lines,
                                        total_hits, page_failed>>
                    ELSE /\ raw_lines' = raw_lines \o taken
                         /\ all_records' = all_records \o NormalizeAll(taken)
                         /\ total_fetched' = total_fetched + Len(taken)
                         /\ page' = page + 1
                         /\ total_hits' = response.totalHits
                         /\ ing_pc' = IF total_fetched' >= total_hits'
                                      THEN "ended" ELSE "loop"
                         /\ UNCHANGED page_failed
    /\ UNCHANGED <<ing_args, ing_raised, wrote_clean, after_ingest, clean_file>>
    /\ UNCHANGED IngestRest

\* After the loop: the clean file is written when records were collected;
\* run_end_to_end returns when the call raised or when no clean file
\* exists, and goes on to the model stage otherwise
IngestReturn ==
    /\ ing_pc = "ended"
    /\ ing_pc' = "idle"
    /\ wrote_clean' = (~ing_raised /\ all_records # <<>>)
    /\ clean_file' = IF wrote_clean' THEN <<all_records>> ELSE clean_file
    /\ after_ingest' = IF ing_raised THEN "return_ingest_failed"
                       ELSE IF clean_file' = <<>> THEN "return_no_clean_file"
                       ELSE "model_stage"
    /\ UNCHANGED <<ing_args, page, total_fetched, all_records, raw_lines, offsets,
                   received, total_hits, page_failed, ing_raised>>
    /\ UNCHANGED IngestRest

IngestNext ==
    \/ IngestStart
    \/ IngestPage
    \/ IngestReturn

IngestSpec == Init /\ [][IngestNext]_vars

\* search_works returns (every request of _make_request has a timeout and
\* its loop is bounded) and the file writes return: an ingestion that can
\* take its next step takes it
IngestLiveSpec ==
    /\ IngestSpec
    /\ WF_vars(IngestPage)
    /\ WF_vars(IngestReturn)

---------------------------------------------------------------------------
(* Spec: run_end_to_end, one action per stage, and the pipeline_online CLI. *)
(* A process that has returned is at "exit"; Exit drops its locals.         *)

RunLocalsUnchanged == UNCHANGED <<documents_df, assignments_df, trends_ret>>

\* run_end_to_end, step 1: ingest_core_papers writes the clean file when it
\* fetched records; the run returns when it raised or when no file exists
RunIngest ==
    /\ pc = "idle"
    /\ UNCHANGED <<fetch_vars, ingest_vars, txn_vars, conc_vars, rec_vars>>
    /\ runs < MaxRuns
    /\ runs' = runs + 1
    /\ \E init_if_missing \in BOOLEAN, skip_db \in BOOLEAN,
          raws \in SeqsUpTo(RunRecords, MaxBatch) :
         \E raised \in (IF raws = <<>> THEN BOOLEAN ELSE {FALSE}) :
            /\ flags' = [init_if_missing |-> init_if_missing, skip_db |-> skip_db]
            /\ clean_file' = IF raws = <<>> THEN clean_file
                             ELSE <<NormalizeAll(raws)>>
            /\ IF raised
               THEN pc' = "exit" /\ outcome' = "ingest_failed"
               ELSE IF clean_file' = <<>>
               THEN pc' = "exit" /\ outcome' = "no_clean_file"
               ELSE pc' = "model" /\ outcome' = "running"
            /\ last_error' = IF raised THEN "Exception" ELSE "none"
    /\ last_op' = "ingest_core_papers"
    /\ UNCHANGED <<last_df, last_ok, last_ret>>
    /\ UNCHANGED <<store_vars, artifact, pipeline_model, hist_vars>>
    /\ RunLocalsUnchanged

\* Variant: the store stage runs whatever the flag says
StoreStageRuns_Always(f) == TRUE

\* if not skip_db: (run_end_to_end.py:134)
StoreStageRuns(f) == ~f.skip_db

\* Variant: a missing model is initialized whatever the flag says
EngineOperation_InitWhenMissing(art, f) ==
    IF art = <<>> THEN "init_model" ELSE "update_model"

\* The branch of run_end_to_end.py:114-131: model_path.exists() is true of
\* whatever is at the artifact location
EngineOperation(art, f) ==
    IF art = <<>> /\ f.init_if_missing THEN "init_model"
    ELSE IF art # <<>> THEN "update_model"
    ELSE "return"

\* run_end_to_end, step 2: init when the artifact is missing and
\* init_if_missing, update when it exists, else return
RunModel ==
    /\ pc = "model"
    /\ UNCHANGED <<fetch_vars, ingest_vars, txn_vars, conc_vars, rec_vars>>
    /\ UNCHANGED runs
    /\ IF EngineOperation(artifact, flags) = "return"
       THEN /\ pc' = "exit" /\ outcome' = "model_missing"
            /\ UNCHANGED <<artifact, pipeline_model, last_op, last_error>>
       ELSE \E fail \in EngineFailures, m \in EngineModels, partial \in BOOLEAN :
              LET res == IF EngineOperation(artifact, flags) = "init_model"
                         THEN init_model(artifact, clean_file, fail, m, partial)
                         ELSE update_model(artifact, clean_file, fail, m, partial)
              IN /\ (partial => fail = "save")
                 /\ artifact' = res.artifact
                 /\ pipeline_model' = res.model
                 /\ last_op' = EngineOperation(artifact, flags)
                 /\ last_error' = res.raised
                 /\ IF res.raised # "none"
                    THEN pc' = "exit" /\ outcome' = "model_failed"
                    ELSE IF ~StoreStageRuns(flags)
                    THEN pc' = "exit" /\ outcome' = "completed"
                    ELSE pc' = "store" /\ outcome' = "running"
    /\ UNCHANGED <<last_df, last_ok, last_ret>>
    /\ UNCHANGED <<store_vars, clean_file, flags, hist_vars>>
    /\ RunLocalsUnchanged

\* run_end_to_end, step 3 up to the topic terms: connect, load the batch,
\* upsert documents, topics and topic terms
RunStore ==
    /\ pc = "store"
    /\ UNCHANGED <<fetch_vars, ingest_vars, txn_vars, conc_vars, rec_vars>>
    /\ UNCHANGED runs
    /\ \E connected \in BOOLEAN :
         IF ~connected
         THEN /\ pc' = "exit" /\ outcome' = "db_failed"
              /\ UNCHANGED <<store_vars, documents_df, last_op, last_ok, last_ret>>
         ELSE \E ok_docs \in BOOLEAN, ok_topics \in BOOLEAN, ok_terms \in BOOLEAN :
                LET df   == clean_file[1]
                    docs == upsert_documents([rows |-> documents, seq |-> doc_seq],
                                             df, ok_docs)
                    tops == upsert_topics(topics, TopicsFrame(pipeline_model[1]),
                                          ok_topics)
                    trms == upsert_topic_terms(topic_terms,
                                               TermsFrame(pipeline_model[1]), ok_terms)
                IN /\ documents_df' = df
                   /\ documents' = docs.tbl.rows
                   /\ doc_seq' = docs.tbl.seq
                   /\ topics' = tops.rows
                   /\ topic_terms' = trms.rows
                   /\ last_op' = "upsert_topic_terms"
                   /\ last_ok' = ok_terms
                   /\ last_ret' = <<trms.ret>>
                   /\ pc' = "assign" /\ outcome' = "running"
                   /\ UNCHANGED <<topic_assignments, topic_trends>>
    /\ UNCHANGED <<last_df, last_error>>
    /\ UNCHANGED <<file_vars, flags, pipeline_model, assignments_df, trends_ret,
                   hist_vars>>

\* run_end_to_end, step 3, assignments: get_topic_assignments, then the id
\* mapping and upsert_topic_assignments when the frame is not empty
RunAssign ==
    /\ pc = "assign"
    /\ UNCHANGED <<fetch_vars, ingest_vars, txn_vars, conc_vars, rec_vars>>
    /\ UNCHANGED runs
    /\ \E labels \in Labellings(pipeline_model[1], Len(documents_df)),
          probs \in Probabilities(Len(documents_df)),
          ok_map \in BOOLEAN, ok \in BOOLEAN :
         LET res      == get_topic_assignments(pipeline_model, labels, probs)
             core_ids == [i \in DOMAIN documents_df |-> documents_df[i].core_id]
             mapping  == reverse_mapping(core_ids,
                             get_document_id_mapping(documents, core_ids, ok_map))
             up       == upsert_topic_assignments(topic_assignments, res.value,
                                                  mapping, ok)
         IN /\ last_op' = "get_topic_assignments"
            /\ last_df' = labels
            /\ last_error' = res.raised
            /\ assignments_df' = res.value
            /\ IF res.raised # "none"
               THEN /\ pc' = "exit" /\ outcome' = "db_failed"
                    /\ UNCHANGED <<topic_assignments, last_ok, last_ret>>
               ELSE IF res.value = <<>>
               THEN /\ pc' = "exit" /\ outcome' = "completed"
                    /\ (ok_map /\ ok)
                    /\ UNCHANGED <<topic_assignments, last_ok, last_ret>>
               ELSE /\ pc' = "trends" /\ outcome' = "running"
                    /\ topic_assignments' = up.rows
                    /\ last_ok' = ok
                    /\ last_ret' = <<up.ret>>
    /\ UNCHANGED <<documents, doc_seq, topics, topic_terms, topic_trends>>
    /\ UNCHANGED <<file_vars, flags, pipeline_model, documents_df, trends_ret,
                   hist_vars>>

\* run_end_to_end, step 3, trends: create_topic_trends, upsert_topic_trends
\* when it returned rows, then the table counts
RunTrends ==
    /\ pc = "trends"
    /\ UNCHANGED <<fetch_vars, ingest_vars, txn_vars, conc_vars, rec_vars>>
    /\ UNCHANGED runs
    /\ \E ok \in BOOLEAN :
         LET res == create_topic_trends(assignments_df, documents_df)
             up  == upsert_topic_trends(topic_trends, res.value, ok)
         IN /\ trends_ret' = res
            /\ last_op' = "create_topic_trends"
            /\ last_error' = res.raised
            /\ IF res.raised # "none"
               THEN /\ outcome' = "db_failed"
                    /\ ok
                    /\ UNCHANGED <<topic_trends, last_ok, last_ret>>
               ELSE /\ outcome' = "completed"
                    /\ topic_trends' = up.rows
                    /\ last_ok' = ok
                    /\ last_ret' = <<up.ret>>
    /\ pc' = "exit"
    /\ UNCHANGED <<documents, doc_seq, topics, topic_terms, topic_assignments>>
    /\ UNCHANGED <<file_vars, flags, pipeline_model, documents_df, assignments_df,
                   last_df, hist_vars>>

\* pipeline_online main, --mode init, on the clean file or on a path with no
\* file
CliInit ==
    /\ pc = "idle"
    /\ UNCHANGED <<fetch_vars, ingest_vars, txn_vars, conc_vars, rec_vars>>
    /\ runs < MaxRuns
    /\ runs' = runs + 1
    /\ \E batch \in {<<>>, clean_file}, fail \in EngineFailures,
          m \in EngineModels, partial \in BOOLEAN :
         LET res == init_model(artifact, batch, fail, m, partial)
         IN /\ (partial => fail = "save")
            /\ (batch = <<>> => fail = "none")
            /\ artifact' = res.artifact
            /\ pipeline_model' = res.model
            /\ last_error' = res.raised
    /\ last_op' = "init_model"
    /\ pc' = "exit"
    /\ outcome' = "cli"
    /\ UNCHANGED <<last_df, last_ok, last_ret>>
    /\ UNCHANGED <<store_vars, clean_file, flags, hist_vars>>
    /\ RunLocalsUnchanged

\* pipeline_online main, --mode update
CliUpdate ==
    /\ pc = "idle"
    /\ UNCHANGED <<fetch_vars, ingest_vars, txn_vars, conc_vars, rec_vars>>
    /\ runs < MaxRuns
    /\ runs' = runs + 1
    /\ \E batch \in {<<>>, clean_file}, fail \in EngineFailures,
          m \in EngineModels, partial \in BOOLEAN :
         LET res == update_model(artifact, batch, fail, m, partial)
         IN /\ (partial => fail = "save")
            /\ (batch = <<>> => fail = "none")
            /\ artifact' = res.artifact
            /\ pipeline_model' = res.model
            /\ last_error' = res.raised
    /\ last_op' = "update_model"
    /\ pc' = "exit"
    /\ outcome' = "cli"
    /\ UNCHANGED <<last_df, last_ok, last_ret>>
    /\ UNCHANGED <<store_vars, clean_file, flags, hist_vars>>
    /\ RunLocalsUnchanged

\* The process ends: what it held in memory is gone
Exit ==
    /\ pc = "exit"
    /\ UNCHANGED <<fetch_vars, ingest_vars, txn_vars, conc_vars, rec_vars>>
    /\ UNCHANGED runs
    /\ pc' = "idle"
    /\ flags' = [init_if_missing |-> FALSE, skip_db |-> FALSE]
    /\ pipeline_model' = <<>>
    /\ documents_df' = <<>>
    /\ assignments_df' = <<>>
    /\ trends_ret' = <<>>
    /\ outcome' = "none"
    /\ last_op' = "none"
    /\ last_df' = <<>>
    /\ last_ok' = TRUE
    /\ last_ret' = <<>>
    /\ last_error' = "none"
    /\ UNCHANGED <<store_vars, file_vars, hist_vars>>

\* The status the process at "exit" ends with.  run_end_to_end catches every
\* stage failure, logs it and returns, and its main returns after it: 0.
\* pipeline_online's main lets the exception of init_model or update_model
\* escape: the interpreter ends with 1.
ExitStatus ==
    IF outcome = "cli" /\ last_error # "none" THEN 1 ELSE 0

Next ==
    \/ RunIngest
    \/ RunModel
    \/ RunStore
    \/ RunAssign
    \/ RunTrends
    \/ CliInit
    \/ CliUpdate
    \/ Exit

Spec == Init /\ [][Next]_vars

---------------------------------------------------------------------------
(* HelpersSpec: single calls of the functions that take no state:           *)
(* get_content_hash, _create_texts and the assignments_data loop of         *)
(* upsert_topic_assignments.  None of them reads or leaves anything behind, *)
(* so a behaviour is one call.                                              *)

\* Longest title or abstract of a hashed document
MaxStrLen == 2

\* Titles and abstracts: None, and the strings over a letter and the
\* separator get_content_hash writes between the two fields
HashFields == {None} \cup SeqsUpTo({"a", "|"}, MaxStrLen)

\* Cells of the title and abstract columns of a clean batch
TextCells == {None, EmptyStr, <<"a">>, <<"b">>}

\* Batches with both columns, one of them, or neither
TextFrames ==
    UNION {SeqsUpTo([c -> TextCells], MaxBatch) : c \in SUBSET {"title", "abstract"}}

\* _create_texts(df): str() of both cells, joined by a blank, stripped; one
\* text per row
create_texts(df) ==
    [i \in DOMAIN df |->
        Strip(Str(Get(df[i], "title", EmptyStr)) \o <<" ">>
                \o Str(Get(df[i], "abstract", EmptyStr)))]

HelpersRest == <<store_vars, file_vars, run_vars, runs, hist_vars, fetch_vars,
                 ingest_vars, txn_vars,
                conc_vars, rec_vars>>

\* get_content_hash on two documents
HashPair ==
    /\ last_op = "none"
    /\ \E t1 \in HashFields, a1 \in HashFields, t2 \in HashFields, a2 \in HashFields :
         /\ last_df' = <<[title |-> t1, abstract |-> a1],
                         [title |-> t2, abstract |-> a2]>>
         /\ last_ret' = <<get_content_hash(t1, a1), get_content_hash(t2, a2)>>
    /\ last_op' = "get_content_hash"
    /\ last_ok' = TRUE
    /\ last_error' = "none"
    /\ UNCHANGED HelpersRest

\* _create_texts on a batch
CreateTexts ==
    /\ last_op = "none"
    /\ \E df \in TextFrames :
         /\ last_df' = df
         /\ last_ret' = <<create_texts(df)>>
    /\ last_op' = "_create_texts"
    /\ last_ok' = TRUE
    /\ last_error' = "none"
    /\ UNCHANGED HelpersRest

\* The loop of upsert_topic_assignments that builds assignments_data from
\* the frame and the mapping it is given
BuildAssignments ==
    /\ last_op = "none"
    /\ \E df \in AssignmentFrames, doc_id_mapping \in IdMappings :
         /\ last_df' = [df |-> df, doc_id_mapping |-> doc_id_mapping]
         /\ last_ret' = <<AssignmentsData(df, doc_id_mapping)>>
    /\ last_op' = "assignments_data"
    /\ last_ok' = TRUE
    /\ last_error' = "none"
    /\ UNCHANGED HelpersRest

\* The suffix normalize_urls looks for
DotPdf == <<".", "p", "d", "f">>

\* s.endswith(suffix)
EndsWith(s, suffix) ==
    /\ Len(s) >= Len(suffix)
    /\ SubSeq(s, Len(s) - Len(suffix) + 1, Len(s)) = suffix

\* bool(x) of a string or None
Truthy(x) == x # None /\ x # EmptyStr

\* Values of downloadUrl, sourceFulltextUrl and pdfUrl in a record of the
\* API: null, "", a plain URL, a URL of a PDF
UrlCells == {None, EmptyStr, <<"u">>, <<"v">> \o DotPdf}

\* Records with any of the three fields
UrlRecords ==
    UNION {[c -> UrlCells] :
             c \in SUBSET {"downloadUrl", "sourceFulltextUrl", "pdfUrl"}}

\* Values of "urls": the key is absent, null, a string, or a list of at most
\* two entries, each null or a string
UrlsValues ==
    {[type |-> "absent", items |-> <<>>], [type |-> "None", items |-> <<>>]}
        \cup {[type |-> "str", items |-> <<x>>] : x \in {EmptyStr, <<"w">>}}
        \cup {[type |-> "list", items |-> xs] :
                 xs \in SeqsUpTo({None, EmptyStr, <<"w">>}, 2)}

\* normalize_urls(record): the pair (url, pdf_url).  urls is the value under
\* the key "urls"; a list is truthy when it has an entry, and its first
\* entry is taken whatever it is
normalize_urls(record, urls) ==
    LET downloadUrl == Get(record, "downloadUrl", EmptyStr)
        sourceFulltextUrl == Get(record, "sourceFulltextUrl", EmptyStr)
        pdfUrl == Get(record, "pdfUrl", EmptyStr)
        url == IF Truthy(downloadUrl) THEN downloadUrl
               ELSE IF Truthy(sourceFulltextUrl) THEN sourceFulltextUrl
               ELSE IF urls.type = "list" /\ urls.items # <<>> THEN urls.items[1]
               ELSE IF urls.type = "str" /\ urls.items[1] # EmptyStr
                    THEN urls.items[1]
               ELSE EmptyStr
        pdf_url == IF Truthy(pdfUrl) THEN pdfUrl
                   ELSE IF Truthy(downloadUrl) /\ EndsWith(downloadUrl, DotPdf)
                        THEN downloadUrl
                   ELSE EmptyStr
    IN <<url, pdf_url>>

\* normalize_urls on a record
NormalizeUrls ==
    /\ last_op = "none"
    /\ \E record \in UrlRecords, urls \in UrlsValues :
         /\ last_df' = [record |-> record, urls |-> urls]
         /\ last_ret' = normalize_urls(record, urls)
    /\ last_op' = "normalize_urls"
    /\ last_ok' = TRUE
    /\ last_error' = "none"
    /\ UNCHANGED HelpersRest

HelpersNext ==
    \/ HashPair
    \/ CreateTexts
    \/ BuildAssignments
    \/ NormalizeUrls

HelpersSpec == Init /\ [][HelpersNext]_vars

---------------------------------------------------------------------------
(* EngineSpec: calls on OnlineBERTopicPipeline objects.  A process creates   *)
(* its object with model None; the artifact outlives the process.            *)

EngineRest == <<store_vars, clean_file, pc, flags, documents_df, trends_ret,
                outcome, runs, hist_vars, fetch_vars, ingest_vars, txn_vars,
                conc_vars, rec_vars>>

\* A batch file for the engine calls
EngineBatch == <<NormalizeAll(<<CHOOSE r \in RunRecords : TRUE>>)>>

\* pipeline.init_model(batch_path); last_df keeps where the call was made to
\* fail
EngineInit ==
    /\ \E fail \in EngineFailures, m \in EngineModels, partial \in BOOLEAN :
         LET res == init_model(artifact, EngineBatch, fail, m, partial)
         IN /\ (partial => fail = "save")
            /\ artifact' = res.artifact
            /\ pipeline_model' = res.model
            /\ last_error' = res.raised
            /\ last_df' = [fail |-> fail]
    /\ last_op' = "init_model"
    /\ last_ret' = <<>>
    /\ UNCHANGED <<last_ok, assignments_df>>
    /\ UNCHANGED EngineRest

\* pipeline.update_model(batch_path)
EngineUpdate ==
    /\ \E fail \in EngineFailures, m \in EngineModels, partial \in BOOLEAN :
         LET res == update_model(artifact, EngineBatch, fail, m, partial)
         IN /\ (partial => fail = "save")
            /\ artifact' = res.artifact
            /\ pipeline_model' = res.model
            /\ last_error' = res.raised
            /\ last_df' = [fail |-> fail]
    /\ last_op' = "update_model"
    /\ last_ret' = <<>>
    /\ UNCHANGED <<last_ok, assignments_df>>
    /\ UNCHANGED EngineRest

\* The process ends and another one creates its pipeline object:
\* __init__ sets self.model = None and reads nothing from the artifact
NewProcess ==
    /\ pipeline_model' = <<>>
    /\ assignments_df' = <<>>
    /\ last_op' = "__init__"
    /\ last_df' = <<>>
    /\ last_ret' = <<>>
    /\ last_error' = "none"
    /\ UNCHANGED <<last_ok, artifact>>
    /\ UNCHANGED EngineRest

\* pipeline.get_topic_assignments(df) on a batch of n documents; with no
\* model the call raises before it transforms anything
EngineAssign ==
    /\ \E n \in 1..MaxBatch :
         \E probs \in Probabilities(n),
            labels \in (IF pipeline_model = <<>> THEN {<<>>}
                        ELSE Labellings(pipeline_model[1], n)) :
           LET res == get_topic_assignments(pipeline_model, labels, probs)
           IN /\ (pipeline_model = <<>> => probs.kind = "none")
              /\ last_df' = [n |-> n, labels |-> labels, probs |-> probs]
              /\ last_ret' = <<res.value>>
              /\ last_error' = res.raised
              /\ assignments_df' = res.value
    /\ last_op' = "get_topic_assignments"
    /\ UNCHANGED <<last_ok, artifact, pipeline_model>>
    /\ UNCHANGED EngineRest

EngineNext ==
    \/ EngineInit
    \/ EngineUpdate
    \/ NewProcess
    \/ EngineAssign

EngineSpec == Init /\ [][EngineNext]_vars

---------------------------------------------------------------------------
(* ConcurrentSpec: the model stage of run_end_to_end in processes that run  *)
(* at the same time on the one artifact path.  One action per access to the *)
(* path: the two model_path.exists() tests, the start of init_model or      *)
(* update_model, and the model.save that ends it.                           *)

ConcRest == <<store_vars, clean_file, run_vars, runs, call_vars, hist_vars,
              fetch_vars, ingest_vars, txn_vars, rec_vars>>

\* run_end_to_end is started and reaches step 2
ProcStart(p) ==
    /\ procs[p].pc = "idle"
    /\ \E init_if_missing \in BOOLEAN :
         procs' = [procs EXCEPT ![p] = [pc |-> "model", op |-> "none",
                                        init_if_missing |-> init_if_missing]]
    /\ UNCHANGED artifact
    /\ UNCHANGED ConcRest

\* if not model_path.exists() and init_if_missing: (run_end_to_end.py:115)
ProcCheck(p) ==
    /\ procs[p].pc = "model"
    /\ procs' = [procs EXCEPT ![p] =
                    IF artifact = <<>> /\ procs[p].init_if_missing
                    THEN [@ EXCEPT !.pc = "call", !.op = "init_model"]
                    ELSE [@ EXCEPT !.pc = "elif"]]
    /\ UNCHANGED artifact
    /\ UNCHANGED ConcRest

\* elif model_path.exists(): ... else: return (run_end_to_end.py:122-131)
ProcCheckAgain(p) ==
    /\ procs[p].pc = "elif"
    /\ procs' = [procs EXCEPT ![p] =
                    IF artifact # <<>>
                    THEN [@ EXCEPT !.pc = "call", !.op = "update_model"]
                    ELSE [@ EXCEPT !.pc = "idle"]]
    /\ UNCHANGED artifact
    /\ UNCHANGED ConcRest

\* pipeline.init_model or pipeline.update_model is entered; update_model
\* raises when the artifact is not there (any more) or does not load
ProcEnter(p) ==
    /\ procs[p].pc = "call"
    /\ procs' = [procs EXCEPT ![p] =
                    IF procs[p].op = "update_model"
                         /\ artifact \in {<<>>, <<PartialArtifact>>}
                    THEN [@ EXCEPT !.pc = "idle"]
                    ELSE [@ EXCEPT !.pc = "engine"]]
    /\ UNCHANGED artifact
    /\ UNCHANGED ConcRest

\* The call fits or updates and ends with model.save, or fails before it
ProcSave(p) ==
    /\ procs[p].pc = "engine"
    /\ \E fail \in EngineFailures, m \in EngineModels, partial \in BOOLEAN :
         /\ (partial => fail = "save")
         /\ artifact' = FitAndSave(artifact, <<>>, fail, m, partial).artifact
    /\ procs' = [procs EXCEPT ![p] = [@ EXCEPT !.pc = "idle"]]
    /\ UNCHANGED ConcRest

ConcurrentNext ==
    \E p \in Procs :
       \/ ProcStart(p)
       \/ ProcCheck(p)
       \/ ProcCheckAgain(p)
       \/ ProcEnter(p)
       \/ ProcSave(p)

ConcurrentSpec == Init /\ [][ConcurrentNext]_vars

---------------------------------------------------------------------------
(* RecoverySpec: the store stage of run_end_to_end, one action per table it *)
(* writes.  The stage may be cut short after any of its writes (a write cut  *)
(* short itself is rolled back, which leaves the store as it was before      *)
(* it); the pipeline is then run again on the same batch, and the engine    *)
(* hands out what it handed out before.                                      *)

RecRest == <<file_vars, run_vars, call_vars, hist_vars, fetch_vars, ingest_vars,
             txn_vars, conc_vars>>

TheStore ==
    [documents |-> documents, doc_seq |-> doc_seq, topics |-> topics,
     topic_terms |-> topic_terms, topic_assignments |-> topic_assignments,
     topic_trends |-> topic_trends]

\* core_ids = documents_df['core_id'].tolist()
CoreIdsOf(df) == [i \in DOMAIN df |-> df[i].core_id]

\* What the run has from ingestion and from the engine: the batch, the
\* model, and what model.transform gives for the batch
RecInputs ==
    {[df |-> NormalizeAll(raws), model |-> m, labels |-> labels, probs |-> probs] :
        raws \in SeqsUpTo(RunRecords, MaxBatch) \ {<<>>},
        m \in EngineModels,
        labels \in UNION {Labellings(m2, n) : m2 \in EngineModels, n \in 1..MaxBatch},
        probs \in UNION {Probabilities(n) : n \in 1..MaxBatch}}

\* The store stage begins; the first time for these inputs, the store is
\* remembered
RecStart ==
    /\ rec.pc = "idle"
    /\ runs < MaxRuns
    /\ runs' = runs + 1
    /\ \E in \in RecInputs :
         /\ Len(in.labels) = Len(in.df)
         /\ in.labels \in Labellings(in.model, Len(in.df))
         /\ in.probs \in Probabilities(Len(in.df))
         /\ rec' = [pc |-> "docs", inputs |-> in, base |-> TheStore, crashed |-> 0]
    /\ UNCHANGED store_vars
    /\ UNCHANGED RecRest

\* db_writer.upsert_documents(documents_df)
RecDocuments ==
    /\ rec.pc = "docs"
    /\ LET docs == upsert_documents([rows |-> documents, seq |-> doc_seq],
                                    rec.inputs.df, TRUE)
       IN /\ documents' = docs.tbl.rows
          /\ doc_seq' = docs.tbl.seq
    /\ rec' = [rec EXCEPT !.pc = "topics"]
    /\ UNCHANGED <<topics, topic_terms, topic_assignments, topic_trends, runs>>
    /\ UNCHANGED RecRest

\* db_writer.upsert_topics(topics_df)
RecTopics ==
    /\ rec.pc = "topics"
    /\ topics' = upsert_topics(topics, TopicsFrame(rec.inputs.model), TRUE).rows
    /\ rec' = [rec EXCEPT !.pc = "terms"]
    /\ UNCHANGED <<documents, doc_seq, topic_terms, topic_assignments, topic_trends,
                   runs>>
    /\ UNCHANGED RecRest

\* db_writer.upsert_topic_terms(topic_terms_df)
RecTerms ==
    /\ rec.pc = "terms"
    /\ topic_terms' =
          upsert_topic_terms(topic_terms, TermsFrame(rec.inputs.model), TRUE).rows
    /\ rec' = [rec EXCEPT !.pc = "assign"]
    /\ UNCHANGED <<documents, doc_seq, topics, topic_assignments, topic_trends, runs>>
    /\ UNCHANGED RecRest

\* The assignments the stage writes on the documents table docs, <<>> when
\* get_topic_assignments raised or returned no row
AssignmentsOfRun(in) ==
    LET res == get_topic_assignments(<<in.model>>, in.labels, in.probs)
    IN IF res.raised # "none" THEN <<>> ELSE res.value

MappingOfRun(in, docs) ==
    reverse_mapping(CoreIdsOf(in.df),
                    get_document_id_mapping(docs, CoreIdsOf(in.df), TRUE))

\* get_topic_assignments, the id mapping, upsert_topic_assignments; the
\* stage is over when the engine call raises or returns no row
RecAssign ==
    /\ rec.pc = "assign"
    /\ LET df == AssignmentsOfRun(rec.inputs)
       IN IF df = <<>>
          THEN /\ rec' = [rec EXCEPT !.pc = "done"]
               /\ UNCHANGED topic_assignments
          ELSE /\ rec' = [rec EXCEPT !.pc = "trends"]
               /\ topic_assignments' =
                     upsert_topic_assignments(topic_assignments, df,
                         MappingOfRun(rec.inputs, documents), TRUE).rows
    /\ UNCHANGED <<documents, doc_seq, topics, topic_terms, topic_trends, runs>>
    /\ UNCHANGED RecRest

\* create_topic_trends and upsert_topic_trends
RecTrends ==
    /\ rec.pc = "trends"
    /\ LET res == create_topic_trends(AssignmentsOfRun(rec.inputs), rec.inputs.df)
       IN topic_trends' =
             IF res.raised # "none" \/ res.value = <<>> THEN topic_trends
             ELSE upsert_topic_trends(topic_trends, res.value, TRUE).rows
    /\ rec' = [rec EXCEPT !.pc = "done"]
    /\ UNCHANGED <<documents, doc_seq, topics, topic_terms, topic_assignments, runs>>
    /\ UNCHANGED RecRest

\* The process dies in the store stage and the pipeline is run again
RecCrash ==
    /\ rec.pc \in {"docs", "topics", "terms", "assign", "trends"}
    /\ rec.crashed < MaxCrashes
    /\ rec' = [rec EXCEPT !.pc = "docs", !.crashed = @ + 1]
    /\ UNCHANGED <<store_vars, runs>>
    /\ UNCHANGED RecRest

\* The run has returned
RecEnd ==
    /\ rec.pc = "done"
    /\ rec' = [pc |-> "idle", inputs |-> <<>>, base |-> <<>>, crashed |-> 0]
    /\ UNCHANGED <<store_vars, runs>>
    /\ UNCHANGED RecRest

RecoveryNext ==
    \/ RecStart
    \/ RecDocuments
    \/ RecTopics
    \/ RecTerms
    \/ RecAssign
    \/ RecTrends
    \/ RecCrash
    \/ RecEnd

RecoverySpec == Init /\ [][RecoveryNext]_vars

---------------------------------------------------------------------------
(* Claims on the trend table (TrendsSpec) *)

\* C4: running the trend upsert a second time on the same rows leaves
\* topic_trends as the first run left it: a count is replaced under its key
\* (topic_id, year, month), never added to the stored count.
C4_TrendUpsertIdempotent ==
    [][trend_rerun' => topic_trends' = topic_trends]_vars

\* A frame that gives one key two counts was upserted twice: the table
\* holds the second count, beside a row the frame does not touch
C4_TrendsUpsertedTwice ==
    /\ trend_rerun
    /\ \E i, j \in DOMAIN last_df :
          /\ i < j
          /\ last_df[i].topic_id = last_df[j].topic_id
          /\ last_df[i].doc_count # last_df[j].doc_count
          /\ last_df[j] \in topic_trends
    /\ Cardinality(topic_trends) >= 2

---------------------------------------------------------------------------
(* Claims on the documents table and on id resolution (DocumentsSpec) *)

\* The batch indexes whose key is stored, and the stored id of index i
KnownIndexes(core_ids) ==
    {i \in DOMAIN core_ids : \E r \in documents : r.core_id = core_ids[i]}

StoredId(k) == (CHOOSE r \in documents : r.core_id = k).id

ResolvedExactly(core_ids, m) ==
    /\ DOMAIN m = KnownIndexes(core_ids)
    /\ \A i \in DOMAIN m : m[i] = StoredId(core_ids[i])

\* C3 as stated: resolve_ids returns a mapping holding batch index i exactly
\* when key i is stored, mapped to that document's id, and never raises.
\* Violated: when the database raises, the mapping is empty although keys
\* of the batch are stored.
C3_ResolveExactlyKnown ==
    last_op = "get_document_id_mapping" =>
        /\ last_error = "none"
        /\ ResolvedExactly(last_df, last_ret[1])

\* C3 amended: the call never raises; when the lookup query succeeds the
\* mapping holds batch index i exactly when key i is stored, mapped to that
\* document's id; when the database raises, the mapping is empty.
C3_ResolveKnownWhenQuerySucceeds ==
    last_op = "get_document_id_mapping" =>
        /\ last_error = "none"
        /\ IF last_ok THEN ResolvedExactly(last_df, last_ret[1])
                      ELSE DOMAIN last_ret[1] = {}

\* A batch mixing a stored and an unknown key has been resolved
C3_MixedBatchResolved ==
    /\ last_op = "get_document_id_mapping"
    /\ last_ok
    /\ DOMAIN last_ret[1] # {}
    /\ DOMAIN last_df \ DOMAIN last_ret[1] # {}

\* C7: after any sequence of document upserts the table holds exactly one
\* row per core_id that was upserted, carrying the title, abstract and year
\* of the last committed upsert of that key and the hash of that title and
\* abstract.
C7_OneRowPerKeyWithLatestValues ==
    /\ {r.core_id : r \in documents} = DOMAIN latest
    /\ \A r1, r2 \in documents : r1.core_id = r2.core_id => r1 = r2
    /\ \A r \in documents :
          /\ r.title = latest[r.core_id].title
          /\ r.abstract = latest[r.core_id].abstract
          /\ r.year = latest[r.core_id].year
          /\ r.content_hash = get_content_hash(latest[r.core_id].title,
                                               latest[r.core_id].abstract)

\* A document upserted again with a changed abstract: one row, new hash
C7_ReupsertedWithChangedAbstract ==
    \E r \in documents :
        /\ r.abstract # first_row[r.core_id].abstract
        /\ r.content_hash # first_row[r.core_id].content_hash

\* C8: the id of a document is the one its first insert was given, however
\* often its core_id is upserted again.
C8_SurrogateIdStable ==
    \A k \in DOMAIN first_row :
        /\ \E r \in documents : r.core_id = k
        /\ \A r \in documents : r.core_id = k => r.id = first_row[k].id

\* Two documents, the older one upserted again with other values, ids kept
C8_ReupsertedKeepsId ==
    \E r1, r2 \in documents :
        /\ r1.id < r2.id
        /\ r1.year # first_row[r1.core_id].year
        /\ r1.id = first_row[r1.core_id].id

---------------------------------------------------------------------------
(* Claims on the topic engine (Spec) *)

\* A process step that called update_model while no artifact was persisted
UpdateWithoutArtifact == last_op' = "update_model" /\ pc' = "exit" /\ artifact = <<>>

C2_AssignOmitsOutliers ==
    \A i \in DOMAIN assignments_df : assignments_df[i].topic_id # Outlier

\* get_topic_assignments returned rows for a labelling that had an outlier
C2_OutlierDroppedFromAssignments ==
    /\ pc = "trends"
    /\ last_op = "get_topic_assignments"
    /\ Outlier \in Range(last_df)
    /\ assignments_df # <<>>
    /\ Len(assignments_df) < Len(last_df)

---------------------------------------------------------------------------
(* Claims on trend aggregation in the end-to-end run (Spec) *)

\* The stored assignments of topic t whose document has year y
AssignmentsIn(t, y) ==
    {a \in topic_assignments :
        /\ a.topic_id = t
        /\ \E d \in documents : d.id = a.doc_id /\ d.year = y}

\* The trend table the stored assignments and documents derive
DerivedTrends ==
    {[topic_id |-> a.topic_id, year |-> d.year, month |-> 1,
      doc_count |-> Cardinality(AssignmentsIn(a.topic_id, d.year))] :
        <<a, d>> \in {p \in topic_assignments \X documents : p[1].doc_id = p[2].id}}

\* C5: between pipeline runs, every topic_trends row holds the number of
\* stored assignments of its topic whose document has its year, and the
\* table is the one the stored assignments and documents derive.
C5_TrendsDerivableFromStore ==
    pc = "idle" =>
        /\ \A r \in topic_trends :
              r.doc_count = Cardinality(AssignmentsIn(r.topic_id, r.year))
        /\ topic_trends = DerivedTrends

\* The rows the aggregation is to return for an assignments frame and the
\* batch it indexes: one per (topic id, year, month 1) with its count
ExpectedTrends(assignments, docs) ==
    {[topic_id |-> assignments[i].topic_id,
      year |-> docs[assignments[i].doc_id].year,
      month |-> 1,
      doc_count |-> Cardinality({j \in DOMAIN assignments :
                       /\ assignments[j].topic_id = assignments[i].topic_id
                       /\ docs[assignments[j].doc_id].year =
                             docs[assignments[i].doc_id].year})] :
        i \in DOMAIN assignments}

\* C6: create_topic_trends joins each assignment to its document and
\* returns exactly one row per (topic id, year, month = 1) group, with the
\* number of assignments of the group; two 2021 documents of one topic give
\* the single row (topic, 2021, 1, 2).
C6_AggregateReturnsGroupCounts ==
    (pc = "exit" /\ last_op = "create_topic_trends") =>
        /\ trends_ret.raised = "none"
        /\ Range(trends_ret.value) = ExpectedTrends(assignments_df, documents_df)
        /\ Len(trends_ret.value) = Cardinality(Range(trends_ret.value))

---------------------------------------------------------------------------
(* Claims on the page fetch loops (FetchSpec) *)

\* C9: a page fetch answered 503 three times and then 200 with results
\* returns those results: it is still running after each of the three 503s
\* and returns the page of the 200.
C9_Three503ThenOkReturnsPage ==
    (fetch_fn # "none" /\ served # <<>>
        /\ \A i \in 1..Min(Len(served), 3) : served[i].status = 503) =>
       /\ Len(served) <= 3 => fetch_result = <<>>
       /\ (Len(served) = 4 /\ served[4] = [status |-> 200, body |-> "results"])
             => fetch_result = <<Returned("data_results")>>

\* C10: a page fetch answered with a status that is neither 2xx nor in the
\* retry set (404) makes exactly one request, does not sleep, and has failed.
C10_NonRetryStatusAbortsAtOnce ==
    (fetch_fn # "none" /\ served # <<>> /\ served[1].status = 404) =>
       /\ Len(served) = 1
       /\ sleeps = <<>>
       /\ fetch_result # <<>>
       /\ fetch_result[1] # Returned("data_results")

\* The number of requests the running function allows itself
AttemptLimit ==
    CASE fetch_fn = "_make_request" -> max_retries
      [] fetch_fn = "_query_api"    -> QueryApiAttempts
      [] fetch_fn = "_post"         -> PostRetries
      [] fetch_fn = "fetch_page"    -> FetchPageAttempts
      [] OTHER                      -> 0

\* C11: whatever the server answers, a page fetch makes at most its
\* configured number of requests, has ended once it has made that many, and
\* every running fetch ends, with a page result or with a failure.
C11_RetriesBoundedAndFetchEnds ==
    /\ [](Len(served) <= AttemptLimit)
    /\ []((fetch_fn # "none" /\ Len(served) = AttemptLimit) => fetch_result # <<>>)
    /\ (fetch_fn # "none" /\ fetch_result = <<>>) ~> (fetch_result # <<>>)

\* _post was answered 503 on each of its five requests and gave up
C11_PostGaveUpAfterFiveTransientFailures ==
    /\ fetch_fn = "_post"
    /\ Len(served) = PostRetries
    /\ \A i \in DOMAIN served : served[i].status = 503
    /\ fetch_result = <<Raised("RuntimeError: max retries")>>

---------------------------------------------------------------------------
(* Claims on ingestion (IngestSpec) *)

\* C12: an ingestion in which a page fetch failed is aborted: it writes no
\* normalized batch, and run_end_to_end goes on to no further stage.
C12_FailedFetchAbortsRun ==
    (after_ingest # "none" /\ page_failed) =>
        /\ ~wrote_clean
        /\ after_ingest # "model_stage"

---------------------------------------------------------------------------
(* Claims on how a run ends (Spec) *)

\* A stage of the process at "exit" failed: ingestion raised, init or update
\* raised, or the store stage raised
StageFailed ==
    \/ outcome \in {"ingest_failed", "model_failed", "db_failed"}
    \/ outcome = "cli" /\ last_error # "none"

\* C13: a process in which a stage failed ends with a non-zero exit status.
C13_StageFailureExitsNonZero ==
    (pc = "exit" /\ StageFailed) => ExitStatus # 0

\* C14: once upsert_documents has failed in a run (a key of the batch is not
\* stored after the store step), the run writes no later table: topics and
\* topic terms are as they were.
C14_FailedUpsertStopsLaterWrites ==
    [][(/\ pc = "store"
        /\ pc' = "assign"
        /\ \E i \in DOMAIN documents_df' :
              \A d \in documents' : d.core_id # documents_df'[i].core_id)
       => UNCHANGED <<topics, topic_terms>>]_vars

\* C15: when create_topic_trends fails after the assignments were written,
\* the run still reports completion and the assignments stay stored.
C15_TrendFailureIsNotFatal ==
    [][(pc = "trends" /\ pc' = "exit" /\ trends_ret'.raised # "none")
       => (outcome' = "completed" /\ topic_assignments' = topic_assignments)]_vars

---------------------------------------------------------------------------
(* Claims on the upserts as transactions (TablesSpec) *)

\* Row i of data is the last of data with its key
LastForKey(data, i, key) ==
    \A j \in DOMAIN data : j > i => \E f \in key : data[j][f] # data[i][f]

\* The key columns of the table the call op writes
KeyOf(op) ==
    CASE op = "upsert_documents"         -> {"core_id"}
      [] op = "upsert_topics"            -> {"topic_id"}
      [] op = "upsert_topic_terms"       -> {"topic_id", "term"}
      [] op = "upsert_topic_assignments" -> {"doc_id", "topic_id"}
      [] op = "upsert_topic_trends"      -> {"topic_id", "year", "month"}

\* C16: an upsert call leaves its table either as it was or as it is with
\* every row of the batch written; no prefix of the batch is ever visible.
C16_BatchUpsertAtomic ==
    [][/\ last_op' = "upsert_documents" =>
            documents' \in {documents,
                            ExecDocRows([rows |-> documents, seq |-> doc_seq],
                                        last_df', 1).rows}
       /\ last_op' = "upsert_topics" =>
            topics' \in {topics, ExecRows(topics, last_df', {"topic_id"}, 1)}
       /\ last_op' = "upsert_topic_terms" =>
            topic_terms' \in {topic_terms,
                              ExecRows(topic_terms, last_df', {"topic_id", "term"}, 1)}
       /\ last_op' = "upsert_topic_assignments" =>
            topic_assignments' \in
                {topic_assignments,
                 ExecRows(topic_assignments, last_df', {"doc_id", "topic_id"}, 1)}
       /\ last_op' = "upsert_topic_trends" =>
            topic_trends' \in {topic_trends, ExecTrendRows(topic_trends, last_df', 1)}
      ]_vars

\* upsert_documents raised at the second row of a batch of two, and the
\* paper of the first row is not stored
C16_FailedAtSecondRowFirstNotVisible ==
    /\ last_op = "upsert_documents"
    /\ failed_at = 2
    /\ Len(last_df) = 2
    /\ \A d \in documents : d.core_id # last_df[1].core_id

C18_TermsReplacedWholesale ==
    (last_op = "upsert_topic_terms" /\ last_ok) =>
        \A i \in DOMAIN last_df :
           {r.term : r \in {x \in topic_terms : x.topic_id = last_df[i].topic_id}}
             = {last_df[j].term :
                  j \in {k \in DOMAIN last_df : last_df[k].topic_id = last_df[i].topic_id}}

---------------------------------------------------------------------------
(* Claims on the engine's artifact (Spec) *)

\* The artifact location holds a model that loads
HoldsModel(art) == \E m \in EngineModels : art = <<m>>

\* The step is a call of the engine operation op, from either entry point
EngineCall(op) == pc \in {"idle", "model"} /\ last_op' = op

\* C19: init_model never runs to its end while the artifact location already
\* holds a model; no entry point overwrites a model by initializing again.
C19_NoInitOverExistingModel ==
    [][(EngineCall("init_model") /\ last_error' = "none") =>
          ~HoldsModel(artifact)]_vars

\* C20: a successful init_model leaves the fitted model at the artifact
\* location, a successful update_model leaves the updated model at the same
\* location, and an artifact location that is not empty never becomes empty.
C20_ReadyIsKept ==
    /\ [][(EngineCall("init_model") /\ last_error' = "none") =>
            (HoldsModel(artifact') /\ artifact' = pipeline_model')]_vars
    /\ [][(EngineCall("update_model") /\ last_error' = "none") =>
            (HoldsModel(artifact) /\ HoldsModel(artifact')
               /\ artifact' = pipeline_model')]_vars
    /\ [][artifact # <<>> => artifact' # <<>>]_vars

\* In the second process, update_model has succeeded on the artifact an
\* earlier init_model left, and the updated model is at the location
C20_UpdatedAfterInit ==
    /\ runs = MaxRuns
    /\ last_op = "update_model"
    /\ last_error = "none"
    /\ HoldsModel(artifact)
    /\ artifact = pipeline_model

---------------------------------------------------------------------------
(* Claims on assign and on the helpers (EngineSpec, HelpersSpec) *)

\* C21: get_topic_assignments returns assignments whenever the artifact
\* location holds a model, whatever the calling process has run before, and
\* raises ModelNotInitializedError when the location is empty.
C21_AssignDependsOnArtifactOnly ==
    last_op = "get_topic_assignments" =>
        IF HoldsModel(artifact) THEN last_error # "ValueError"
        ELSE IF artifact = <<>> THEN last_error = "ModelNotInitializedError"
        ELSE TRUE

\* C25: two documents get the same content hash exactly when they have the
\* same title and the same abstract (sha256 taken as free of collisions; a
\* null field and an empty one taken as the same field).
C25_HashInputInjective ==
    last_op = "get_content_hash" =>
        ((last_ret[1] = last_ret[2]) <=>
            (/\ OrEmpty(last_df[1].title) = OrEmpty(last_df[2].title)
             /\ OrEmpty(last_df[1].abstract) = OrEmpty(last_df[2].abstract)))

\* The batch positions of df that doc_id_mapping maps
MappedPositions(df, doc_id_mapping) ==
    {i \in DOMAIN df : df[i].doc_id \in DOMAIN doc_id_mapping}

\* C27: assignments_data holds one entry for every engine entry whose batch
\* position is mapped, in the order of the frame, with the mapped document
\* id and the entry's topic id and probability, and no other entry.
C27_AssignmentsDataIsMappedEntries ==
    last_op = "assignments_data" =>
        LET df      == last_df.df
            mapping == last_df.doc_id_mapping
            out     == last_ret[1]
            kept    == MappedPositions(df, mapping)
            expect(i) == [doc_id      |-> mapping[df[i].doc_id],
                          topic_id    |-> df[i].topic_id,
                          probability |-> df[i].probability]
        IN /\ Len(out) = Cardinality(kept)
           /\ Len(out) <= Len(df)
           /\ \A j \in DOMAIN out :
                 \E i \in kept :
                    /\ out[j] = expect(i)
                    /\ j = Cardinality({k \in kept : k <= i})

\* Of two engine entries, the one whose batch position is not mapped was
\* dropped and the other was emitted
C27_UnmappedEntryDropped ==
    /\ last_op = "assignments_data"
    /\ Len(last_df.df) = 2
    /\ Cardinality(MappedPositions(last_df.df, last_df.doc_id_mapping)) = 1
    /\ Len(last_ret[1]) = 1

\* C28: with a model loaded, get_topic_assignments returns the entries of
\* the documents that are no outliers, each with a probability between 0
\* and 1 (0 to 100 percent), and with probability 0 when transform reported
\* no probabilities.
C28_AssignReturnsBoundedConfidence ==
    (last_op = "get_topic_assignments" /\ pipeline_model # <<>>) =>
        /\ last_error = "none"
        /\ Len(last_ret[1]) =
              Cardinality({i \in DOMAIN last_df.labels : last_df.labels[i] # Outlier})
        /\ \A j \in DOMAIN last_ret[1] :
              /\ last_ret[1][j].probability \in 0..100
              /\ last_df.probs.kind = "none" => last_ret[1][j].probability = 0

\* The cell k of the row is absent or null
Missing(row, k) == k \notin DOMAIN row \/ row[k] = None

\* C29: _create_texts returns one text per document, and the empty string
\* for a document whose title and abstract are both absent or null.
C29_OneTextPerDocumentEmptyWhenMissing ==
    last_op = "_create_texts" =>
        /\ Len(last_ret[1]) = Len(last_df)
        /\ \A i \in DOMAIN last_df :
              (Missing(last_df[i], "title") /\ Missing(last_df[i], "abstract"))
                 => last_ret[1][i] = EmptyStr

---------------------------------------------------------------------------
(* Claims on the shape of a page (FetchSpec) *)

\* C30: when the answer that ends a fetch of the ingestion client
\* (_make_request), of _query_api or of _post is a 200 whose body has no
\* results but wraps JSON under message, the caller is handed the payload
\* parsed from message.
C30_WrappedPayloadUnwrapped ==
    (/\ fetch_fn \in {"_make_request", "_query_api", "_post"}
     /\ fetch_result # <<>>
     /\ served # <<>>
     /\ served[Len(served)] = [status |-> 200, body |-> "message"])
        => fetch_result = <<Returned("nested")>>

---------------------------------------------------------------------------
(* Claims on the flags of the end-to-end run (Spec) *)

\* The step belongs to a run_end_to_end call started with skip_db
StepOfSkipDbRun ==
    \/ pc # "idle" /\ outcome # "cli" /\ flags.skip_db
    \/ pc = "idle" /\ pc' # "idle" /\ flags'.skip_db

\* C24: no step of a run started with skip_db changes a table or enters the
\* store stage, the model stage of such a run is not skipped, and the run
\* completes only after ingestion and the model stage have succeeded.
C24_SkipDbLeavesStoreAlone ==
    /\ [][StepOfSkipDbRun =>
            /\ UNCHANGED store_vars
            /\ pc' \notin {"store", "assign", "trends"}]_vars
    /\ [][(pc = "model" /\ flags.skip_db /\ pc' = "exit"
              /\ ~(artifact = <<>> /\ ~flags.init_if_missing))
            => last_op' \in {"init_model", "update_model"}]_vars
    /\ []((pc = "exit" /\ flags.skip_db /\ outcome = "completed") =>
            /\ clean_file # <<>>
            /\ last_op \in {"init_model", "update_model"}
            /\ last_error = "none"
            /\ HoldsModel(artifact))

\* A run with skip_db has completed on a store an earlier run had filled
C24_SkipDbRunCompletedOnFilledStore ==
    /\ pc = "exit"
    /\ flags.skip_db
    /\ outcome = "completed"
    /\ last_op = "update_model"
    /\ documents # {}
    /\ topics # {}

---------------------------------------------------------------------------
(* Claims on concurrent runs and on recovery (ConcurrentSpec, RecoverySpec) *)

\* C22: at most one process is inside init_model or update_model at a time.
C22_OneEngineCallAtATime ==
    Cardinality({p \in Procs : procs[p].pc = "engine"}) <= 1

\* The tables a store stage leaves when nothing cuts it short
UninterruptedStore(base, in) ==
    LET docs == upsert_documents([rows |-> base.documents, seq |-> base.doc_seq],
                                 in.df, TRUE).tbl
        df   == AssignmentsOfRun(in)
        res  == create_topic_trends(df, in.df)
    IN [documents   |-> docs.rows,
        topics      |-> upsert_topics(base.topics, TopicsFrame(in.model), TRUE).rows,
        topic_terms |-> upsert_topic_terms(base.topic_terms, TermsFrame(in.model),
                                           TRUE).rows,
        topic_assignments |->
            IF df = <<>> THEN base.topic_assignments
            ELSE upsert_topic_assignments(base.topic_assignments, df,
                     MappingOfRun(in, docs.rows), TRUE).rows,
        topic_trends |->
            IF df = <<>> \/ res.raised # "none" \/ res.value = <<>>
            THEN base.topic_trends
            ELSE upsert_topic_trends(base.topic_trends, res.value, TRUE).rows]

---------------------------------------------------------------------------
(* Claims on the limit, the leftover batch file, paging and termination of
   ingestion (IngestSpec, IngestLiveSpec) *)

\* C32: when a row limit is given to ingest, the raw file and the normalized
\* batch never hold more records than the limit, for every non-negative
\* limit and every sequence of pages the server returns.
C32_CollectedWithinGivenLimit ==
    ing_args.limit_given =>
        /\ Len(raw_lines) <= ing_args.limit
        /\ Len(all_records) <= ing_args.limit

\* C36: run_end_to_end goes on to the model stage only with the batch its
\* own ingestion wrote: when that ingestion collected no record or raised,
\* the run stops before the model stage, whatever batch file an earlier run
\* left behind.
C36_ModelStageOnlyOnOwnBatch ==
    after_ingest = "model_stage" =>
        /\ all_records # <<>>
        /\ ~ing_raised
        /\ clean_file = <<all_records>>

\* The number of received records that lie before the limit
BeforeLimit ==
    IF ing_args.limit_given THEN Min(Len(received), ing_args.limit)
    ELSE Len(received)

\* C39: the page requests of an ingestion use the offsets 0, page_size,
\* 2*page_size, ... in that order; the raw file holds, once each and in
\* fetch order, the records received, all of those that came before the limit
\* among them; the normalized batch holds the normalization of the same
\* records in the same order, so both hold the same number of records.
C39_PagesInOrderAndRecordsOnce ==
    /\ \A i \in DOMAIN offsets : offsets[i] = (i - 1) * ing_args.page_size
    /\ Len(raw_lines) <= Len(received)
    /\ raw_lines = SubSeq(received, 1, Len(raw_lines))
    /\ Len(raw_lines) >= BeforeLimit
    /\ all_records = NormalizeAll(raw_lines)
    /\ Len(all_records) = Len(raw_lines)

\* Two full pages of two records were fetched at offsets 0 and 2 under a
\* limit of three: the fourth record received was not collected
C39_LimitReachedInsideSecondPage ==
    /\ ing_pc = "ended"
    /\ ing_args.limit_given
    /\ ing_args.limit = 3
    /\ offsets = <<0, 2>>
    /\ Len(received) = 4
    /\ Len(raw_lines) = 3
    /\ Len(all_records) = 3

\* C40: the ingestion loop issues at most max_pages page requests and then
\* stops, whatever the server returns.
C40_LoopEndsWithinMaxPages ==
    /\ [](Len(offsets) <= ing_args.max_pages)
    /\ (ing_pc = "loop" ~> ing_pc = "ended")

\* The server returned a non-empty page to every request and reported more
\* hits than were fetched; the loop stopped after max_pages requests
C40_StoppedByMaxPagesAlone ==
    /\ ing_pc = "ended"
    /\ ing_args.max_pages = MaxPages
    /\ Len(offsets) = MaxPages
    /\ page = MaxPages
    /\ ~ing_args.limit_given
    /\ ~page_failed
    /\ total_fetched < total_hits

---------------------------------------------------------------------------
(* Claims on what the API clients record of a failure (FetchSpec) *)

\* The call ended by returning an empty result because the body of the 200
\* it received, or the payload wrapped under "message", could not be parsed
EmptyBecauseOfFailure ==
    /\ fetch_result # <<>>
    /\ fetch_result[1] \in {Returned("empty_results"), Returned("empty_dict"),
                            Returned("None")}
    /\ served[Len(served)].status = 200 =>
           served[Len(served)].body \in {"unparseable", "message_bad"}

\* C31: an API client that returns an empty result because of a failure
\* (a failed request, an unparseable body, an unparseable wrapped payload)
\* has recorded that the failure occurred.
C31_EmptyResultFromFailureIsRecorded ==
    EmptyBecauseOfFailure => fetch_log # {}

---------------------------------------------------------------------------
(* Claims on URL normalization (HelpersSpec) *)

\* The first of the candidates that is present and non-empty, and the empty
\* string when there is none
FirstNonEmpty(candidates) ==
    LET found == {i \in DOMAIN candidates : Truthy(candidates[i])}
    IN IF found = {} THEN EmptyStr
       ELSE candidates[CHOOSE i \in found : \A j \in found : i <= j]

\* The candidate that the "urls" field of a record offers: its first entry,
\* or the field itself when it is a string
FirstOfUrls(urls) ==
    IF urls.type \in {"list", "str"} /\ urls.items # <<>> THEN urls.items[1]
    ELSE None

\* C33: the main URL is the first present non-empty value among downloadUrl,
\* sourceFulltextUrl and the first entry of urls; the PDF URL is the first
\* among pdfUrl and a downloadUrl that ends in .pdf; each is the empty string
\* when none of its candidates is present and non-empty.
C33_UrlsInPriorityOrderDefaultEmpty ==
    last_op = "normalize_urls" =>
        LET record == last_df.record
            downloadUrl == Get(record, "downloadUrl", None)
        IN /\ last_ret[1] =
                FirstNonEmpty(<<downloadUrl,
                                Get(record, "sourceFulltextUrl", None),
                                FirstOfUrls(last_df.urls)>>)
           /\ last_ret[2] =
                FirstNonEmpty(<<Get(record, "pdfUrl", None),
                                IF EndsWith(downloadUrl, DotPdf)
                                THEN downloadUrl ELSE None>>)

---------------------------------------------------------------------------
(* Claims on when the engine writes the artifact (EngineSpec) *)

\* C37: init_model and update_model write the artifact only as their last
\* step: a call that fails while it encodes, fits or transforms leaves the
\* artifact location exactly as it was, absent or holding the model of
\* before.
C37_FailureBeforeSaveKeepsArtifact ==
    [][(/\ last_op' \in {"init_model", "update_model"}
        /\ last_df'.fail \in {"encode", "fit"})
          => (last_error' # "none" /\ artifact' = artifact)]_vars

\* update_model loaded the model of the artifact, failed in transform, and
\* the artifact still holds that model
C37_UpdateFailedInTransform ==
    /\ last_op = "update_model"
    /\ last_df.fail = "fit"
    /\ last_error = "Exception"
    /\ HoldsModel(artifact)
    /\ pipeline_model = artifact

---------------------------------------------------------------------------
(* Claims on the store's references and on the choice of the engine
   operation in the end-to-end run (Spec) *)

\* C38: the model step of run_end_to_end calls update_model whenever
\* something is at the artifact location, init_model only when nothing is
\* there and init_if_missing is set; with nothing there and the flag unset
\* the run ends there, creating no artifact and writing to no table.
C38_OperationChosenFromArtifact ==
    [][pc = "model" =>
        /\ artifact # <<>> => last_op' = "update_model"
        /\ (artifact = <<>> /\ flags.init_if_missing) => last_op' = "init_model"
        /\ (artifact = <<>> /\ ~flags.init_if_missing) =>
              /\ pc' = "exit"
              /\ outcome' = "model_missing"
              /\ artifact' = <<>>
              /\ UNCHANGED store_vars]_vars

\* A run without init_if_missing found no artifact and ended; the run before
\* it had filled the store, which is as that run left it
C38_RunStoppedForMissingModel ==
    /\ pc = "exit"
    /\ outcome = "model_missing"
    /\ ~flags.init_if_missing
    /\ artifact = <<>>
    /\ runs = MaxRuns

\* C34: every row of topic_assignments refers to a document of the store:
\* an assignment is written only for a batch position whose core_id the
\* mapping query found.
C34_AssignmentsReferToDocuments ==
    \A a \in topic_assignments : \E d \in documents : d.id = a.doc_id

\* The second run wrote assignments for documents of its batch, next to the
\* assignments and the documents of the first run
C34_AssignmentsWrittenForStoredDocuments ==
    /\ runs = MaxRuns
    /\ pc = "trends"
    /\ assignments_df # <<>>
    /\ Cardinality(documents) >= 2
    /\ Cardinality({a.doc_id : a \in topic_assignments}) >= 2

\* C35: every topic_id that appears in topic_assignments or in topic_terms
\* has a row in topics, also after runs in which one of the upserts failed.
C35_TopicReferencesResolve ==
    \A t \in {r.topic_id : r \in topic_assignments \cup topic_terms} :
        \E r \in topics : r.topic_id = t

====
